---- MODULE Spec2Model ----
(***************************************************************************)
(* A model of flamme's analyzer / section pipeline:                        *)
(*   DataFrame -> Analyzer.analyze(df) -> Section -> render_html_body/toc  *)
(*                                                                         *)
(* A DataFrame is [nrows, data]: the length of its index and the sequence  *)
(* of its columns [name, values]; a cell is <<>> (null / NaN) or <<v>>.    *)
(*  A Python str that the code takes  *)
(* apart (tags, section names) is a sequence of one-character strings.     *)
(***************************************************************************)
EXTENDS Integers, Sequences, FiniteSets, TLC

VARIABLES
    df,             \* the caller's DataFrame
    op,             \* the last call made by the caller, with its arguments
    result,         \* what that call returned or raised
    calls,          \* the child analyze() calls made during the last call
    sel_calls,      \* the number of selection_fn evaluations during the last call
    analyzers,      \* MappingAnalyzer._analyzers (an insertion-ordered dict)
    max_toc_depth,  \* MappingAnalyzer._max_toc_depth
    root,           \* the section the caller renders
    args            \* the arguments the caller renders it with

vars == <<df, op, result, calls, sel_calls, analyzers, max_toc_depth, root, args>>

\* ------------------------------------------------------------------ bounds
MaxRows == 1
MaxTocDepth == 2

\* --------------------------------------------------------------- DataFrame
ColumnNames == {"col", "dt", "x"}
Null == <<>>
Cells == {Null, <<1>>}

RECURSIVE SeqsOfLen(_, _)
SeqsOfLen(S, n) ==
    IF n = 0 THEN {<<>>}
    ELSE {Append(s, x) : s \in SeqsOfLen(S, n - 1), x \in S}

SeqsUpTo(S, n) == UNION {SeqsOfLen(S, k) : k \in 0..n}

Range(s) == {s[i] : i \in DOMAIN s}

Max2(a, b) == IF a >= b THEN a ELSE b
Min2(a, b) == IF a <= b THEN a ELSE b

IsInjective(s) == \A i, j \in DOMAIN s : s[i] = s[j] => i = j

\* the column labels of a DataFrame are distinct strings
ColumnLists == {s \in SeqsUpTo(ColumnNames, Cardinality(ColumnNames)) : IsInjective(s)}

FramesOf(cols, n) ==
    {[nrows |-> n, data |-> [i \in DOMAIN cols |-> [name |-> cols[i], values |-> vs[i]]]] :
        vs \in SeqsOfLen(SeqsOfLen(Cells, n), Len(cols))}

Frames == UNION {FramesOf(cols, n) : cols \in ColumnLists, n \in 0..MaxRows}

\* df.columns
Columns(frame) == [i \in DOMAIN frame.data |-> frame.data[i].name]

\* `name in df`
HasColumn(frame, name) == \E i \in DOMAIN frame.data : frame.data[i].name = name

\* df[name]
Column(frame, name) ==
    frame.data[CHOOSE i \in DOMAIN frame.data : frame.data[i].name = name].values

\* df.shape[1]
NumColumns(frame) == Len(frame.data)

\* df.shape[0]
NumRows(frame) == frame.nrows

\* series.isna().sum()
RECURSIVE IsnaSum(_)
IsnaSum(values) ==
    IF values = <<>> THEN 0
    ELSE (IF Head(values) = Null THEN 1 ELSE 0) + IsnaSum(Tail(values))

\* df[columns] with a list of labels: a new frame with the same index holding
\* those columns in the order of the list
Select(frame, columns) ==
    [nrows |-> frame.nrows,
     data |-> [i \in DOMAIN columns |->
                 [name |-> columns[i], values |-> Column(frame, columns[i])]]]

\* ------------------------------------------------------------ value_counts
RECURSIVE CountOf(_, _)
CountOf(values, v) ==
    IF values = <<>> THEN 0
    ELSE (IF Head(values) = v THEN 1 ELSE 0) + CountOf(Tail(values), v)

RECURSIVE Distinct(_)
Distinct(values) ==
    IF values = <<>> THEN <<>>
    ELSE LET front == Distinct(SubSeq(values, 1, Len(values) - 1))
             last == values[Len(values)]
         IN IF last \in Range(front) THEN front ELSE Append(front, last)

\* stable sort of [value, count] entries by descending count
RECURSIVE SortByCount(_)
SortByCount(entries) ==
    IF entries = <<>> THEN <<>>
    ELSE LET k == CHOOSE i \in DOMAIN entries :
                    /\ \A j \in DOMAIN entries : entries[j].count <= entries[i].count
                    /\ \A j \in 1..(i - 1) : entries[j].count < entries[i].count
             rest == [j \in 1..(Len(entries) - 1) |->
                        IF j < k THEN entries[j] ELSE entries[j + 1]]
         IN <<entries[k]>> \o SortByCount(rest)

\* value_counts that drops the nulls whatever dropna is
ValueCounts_AlwaysDropNa(values, dropna) ==
    LET kept == SelectSeq(Distinct(values), LAMBDA v : v # Null)
    IN SortByCount([i \in DOMAIN kept |-> [value |-> kept[i], count |-> CountOf(values, kept[i])]])

\* Counter(series.value_counts(dropna=dropna).to_dict())
ValueCounts(values, dropna) ==
    LET kept == SelectSeq(Distinct(values), LAMBDA v : ~(dropna /\ v = Null))
    IN SortByCount([i \in DOMAIN kept |-> [value |-> kept[i], count |-> CountOf(values, kept[i])]])

\* ------------------------------------------------------------------ results
NoOp == [kind |-> "none"]
Returned(section) == [raised |-> "none", section |-> section]
Raised(exc) == [raised |-> exc]

\* the call analyzer.analyze(frame), as the caller records it
AnalyzeCall(a, frame) == [kind |-> "analyze", analyzer |-> a, df |-> frame]

\* ---------------------------------------------------------------- sections
EmptySection == [kind |-> "EmptySection"]

\* ----------------------------------------------------------- leaf analyzers
ColumnKinds == {"ColumnContinuous", "ColumnDiscrete", "MostFrequentValues"}
TemporalColumnKinds == {"ColumnTemporalContinuous", "ColumnTemporalDiscrete"}
TemporalKinds == {"TemporalRowCount", "TemporalNullValue", "GlobalTemporalNullValue"}

ColumnContinuousAnalyzer_analyze(self, frame) ==
    IF ~HasColumn(frame, self.column) THEN EmptySection
    ELSE [kind |-> "ColumnContinuousSection", column |-> self.column,
          series |-> Column(frame, self.column)]

ColumnTemporalContinuousAnalyzer_analyze(self, frame) ==
    IF ~HasColumn(frame, self.column) THEN EmptySection
    ELSE IF ~HasColumn(frame, self.dt_column) THEN EmptySection
    ELSE [kind |-> "ColumnTemporalContinuousSection", column |-> self.column,
          df |-> frame, dt_column |-> self.dt_column, period |-> self.period]

ColumnDiscreteAnalyzer_analyze(self, frame) ==
    IF ~HasColumn(frame, self.column) THEN EmptySection
    ELSE [kind |-> "ColumnDiscreteSection", column |-> self.column,
          counter |-> ValueCounts(Column(frame, self.column), self.dropna),
          null_values |-> IsnaSum(Column(frame, self.column))]

\* ColumnTemporalDiscreteAnalyzer.analyze without its datetime column test
ColumnTemporalDiscreteAnalyzer_analyze_NoDtCheck(self, frame) ==
    IF ~HasColumn(frame, self.column) THEN EmptySection
    ELSE [kind |-> "ColumnTemporalDiscreteSection", column |-> self.column,
          df |-> frame, dt_column |-> self.dt_column, period |-> self.period]

ColumnTemporalDiscreteAnalyzer_analyze(self, frame) ==
    IF ~HasColumn(frame, self.column) THEN EmptySection
    ELSE IF ~HasColumn(frame, self.dt_column) THEN EmptySection
    ELSE [kind |-> "ColumnTemporalDiscreteSection", column |-> self.column,
          df |-> frame, dt_column |-> self.dt_column, period |-> self.period]

MostFrequentValuesAnalyzer_analyze(self, frame) ==
    IF ~HasColumn(frame, self.column) THEN EmptySection
    ELSE [kind |-> "MostFrequentValuesSection", column |-> self.column,
          counter |-> ValueCounts(Column(frame, self.column), self.dropna),
          top |-> self.top]

TemporalRowCountAnalyzer_analyze(self, frame) ==
    IF ~HasColumn(frame, self.dt_column) THEN EmptySection
    ELSE [kind |-> "TemporalRowCountSection", df |-> frame,
          dt_column |-> self.dt_column, period |-> self.period]

TemporalNullValueAnalyzer_analyze(self, frame) ==
    IF ~HasColumn(frame, self.dt_column) THEN EmptySection
    ELSE [kind |-> "TemporalNullValueSection", df |-> frame,
          dt_column |-> self.dt_column, period |-> self.period, ncols |-> self.ncols]

GlobalTemporalNullValueAnalyzer_analyze(self, frame) ==
    IF ~HasColumn(frame, self.dt_column) THEN EmptySection
    ELSE [kind |-> "GlobalTemporalNullValueSection", df |-> frame,
          dt_column |-> self.dt_column, period |-> self.period]

\* NullValueAnalyzer.analyze with the shape of total_count transposed
NullValueAnalyzer_analyze_Transposed(self, frame) ==
    [kind |-> "NullValueSection",
     columns |-> Columns(frame),
     null_count |-> [i \in 1..NumColumns(frame) |-> IsnaSum(frame.data[i].values)],
     total_count |-> [i \in 1..NumRows(frame) |-> NumColumns(frame)]]

NullValueAnalyzer_analyze(self, frame) ==
    [kind |-> "NullValueSection",
     columns |-> Columns(frame),
     null_count |-> [i \in 1..NumColumns(frame) |-> IsnaSum(frame.data[i].values)],
     total_count |-> [i \in 1..NumColumns(frame) |-> NumRows(frame)]]

DuplicatedRowAnalyzer_analyze(self, frame) ==
    [kind |-> "DuplicatedRowSection", frame |-> frame]

\* --------------------------------------------------- insertion-ordered dict
\* a dict is the sequence of its [key, value] items in insertion order
DictHas(d, k) == \E i \in DOMAIN d : d[i].key = k

DictGet(d, k) == d[CHOOSE i \in DOMAIN d : d[i].key = k].value

DictKeys(d) == [i \in DOMAIN d |-> d[i].key]

\* d[k] = v: an existing key keeps its place, a new key goes last
DictSet(d, k, v) ==
    IF DictHas(d, k)
    THEN [i \in DOMAIN d |-> IF d[i].key = k THEN [key |-> k, value |-> v] ELSE d[i]]
    ELSE Append(d, [key |-> k, value |-> v])

\* ------------------------------------------------------ composite analyzers
RECURSIVE Analyze(_, _)

Call(key, analyzer, frame) == [key |-> key, analyzer |-> analyzer, df |-> frame]

Min(S) == CHOOSE x \in S : \A y \in S : x <= y

\* MappingAnalyzer.analyze that builds the SectionDict without max_toc_depth
MappingAnalyzer_analyze_DepthNotPassed(self, frame) ==
    LET results == [i \in DOMAIN self.analyzers |-> Analyze(self.analyzers[i].value, frame)]
        raising == {i \in DOMAIN results : results[i].raised # "none"}
        last == IF raising = {} THEN Len(results) ELSE Min(raising)
    IN [calls |-> [i \in 1..last |->
                      Call(self.analyzers[i].key, self.analyzers[i].value, frame)],
        sel_calls |-> 0,
        df |-> frame,
        result |-> IF raising # {} THEN results[last]
                   ELSE Returned([kind |-> "SectionDict",
                                  sections |-> [i \in DOMAIN results |->
                                      [key |-> self.analyzers[i].key,
                                       value |-> results[i].section]],
                                  max_toc_depth |-> 0])]

\* MappingAnalyzer.analyze: every child analyzes the same frame, in insertion
\* order; the sections go into a SectionDict under the children's names.  An
\* exception of a child ends the call.
MappingAnalyzer_analyze(self, frame) ==
    LET results == [i \in DOMAIN self.analyzers |-> Analyze(self.analyzers[i].value, frame)]
        raising == {i \in DOMAIN results : results[i].raised # "none"}
        last == IF raising = {} THEN Len(results) ELSE Min(raising)
    IN [calls |-> [i \in 1..last |->
                      Call(self.analyzers[i].key, self.analyzers[i].value, frame)],
        sel_calls |-> 0,
        df |-> frame,
        result |-> IF raising # {} THEN results[last]
                   ELSE Returned([kind |-> "SectionDict",
                                  sections |-> [i \in DOMAIN results |->
                                      [key |-> self.analyzers[i].key,
                                       value |-> results[i].section]],
                                  max_toc_depth |-> self.max_toc_depth])]

\* MappingAnalyzer.add_analyzer that never looks at replace_ok
MappingAnalyzer_add_analyzer_AlwaysReplace(self, name, analyzer, replace_ok) ==
    [analyzers |-> DictSet(self.analyzers, name, analyzer), result |-> [raised |-> "none"]]

\* MappingAnalyzer.add_analyzer
MappingAnalyzer_add_analyzer(self, name, analyzer, replace_ok) ==
    IF DictHas(self.analyzers, name) /\ ~replace_ok
    THEN [analyzers |-> self.analyzers, result |-> Raised("KeyError")]
    ELSE [analyzers |-> DictSet(self.analyzers, name, analyzer),
          result |-> [raised |-> "none"]]

\* frame.isna().to_numpy().any()
AnyNull(frame) ==
    \E i \in DOMAIN frame.data : \E r \in 1..frame.nrows : frame.data[i].values[r] = Null

\* the selection function handed to a ChoiceAnalyzer
selection_fn(frame) == IF AnyNull(frame) THEN "null" ELSE "duplicate"

\* ChoiceAnalyzer.analyze that delegates to the first registered analyzer
ChoiceAnalyzer_analyze_FirstRegistered(self, frame) ==
    LET name == self.analyzers[1].key
    IN [calls |-> <<Call(name, DictGet(self.analyzers, name), frame)>>,
        sel_calls |-> 1,
        df |-> frame,
        result |-> Analyze(DictGet(self.analyzers, name), frame)]

\* ChoiceAnalyzer.analyze
ChoiceAnalyzer_analyze(self, frame) ==
    LET name == selection_fn(frame)
    IN IF ~DictHas(self.analyzers, name)
       THEN [calls |-> <<>>, sel_calls |-> 1, df |-> frame, result |-> Raised("KeyError")]
       ELSE [calls |-> <<Call(name, DictGet(self.analyzers, name), frame)>>,
             sel_calls |-> 1,
             df |-> frame,
             result |-> Analyze(DictGet(self.analyzers, name), frame)]

\* TableOfContentAnalyzer.analyze that leaves max_toc_depth at its default
TableOfContentAnalyzer_analyze_DefaultDepth(self, frame) ==
    LET child == Analyze(self.analyzer, frame)
    IN [calls |-> <<Call("analyzer", self.analyzer, frame)>>,
        sel_calls |-> 0,
        df |-> frame,
        result |-> IF child.raised # "none" THEN child
                   ELSE Returned([kind |-> "TableOfContentSection",
                                  section |-> child.section,
                                  max_toc_depth |-> 1])]

\* TableOfContentAnalyzer.analyze
TableOfContentAnalyzer_analyze(self, frame) ==
    LET child == Analyze(self.analyzer, frame)
    IN [calls |-> <<Call("analyzer", self.analyzer, frame)>>,
        sel_calls |-> 0,
        df |-> frame,
        result |-> IF child.raised # "none" THEN child
                   ELSE Returned([kind |-> "TableOfContentSection",
                                  section |-> child.section,
                                  max_toc_depth |-> self.max_toc_depth])]

\* ColumnSubsetAnalyzer.analyze that drops the other columns from the
\* caller's frame instead of taking a new one
ColumnSubsetAnalyzer_analyze_InPlace(self, frame) ==
    IF \E i \in DOMAIN self.columns : ~HasColumn(frame, self.columns[i])
    THEN [calls |-> <<>>, sel_calls |-> 0, df |-> frame, result |-> Raised("KeyError")]
    ELSE [calls |-> <<Call("analyzer", self.analyzer, Select(frame, self.columns))>>,
          sel_calls |-> 0,
          df |-> Select(frame, self.columns),
          result |-> Analyze(self.analyzer, Select(frame, self.columns))]

\* ColumnSubsetAnalyzer.analyze: `df = df[self._columns]` binds the local name
\* to a new frame (KeyError if a label is missing) and leaves the caller's
\* frame as it is
ColumnSubsetAnalyzer_analyze(self, frame) ==
    IF \E i \in DOMAIN self.columns : ~HasColumn(frame, self.columns[i])
    THEN [calls |-> <<>>, sel_calls |-> 0, df |-> frame, result |-> Raised("KeyError")]
    ELSE [calls |-> <<Call("analyzer", self.analyzer, Select(frame, self.columns))>>,
          sel_calls |-> 0,
          df |-> frame,
          result |-> Analyze(self.analyzer, Select(frame, self.columns))]

\* what analyzer.analyze(frame) does: the child calls it makes, the caller's
\* frame after it, and what it returns or raises
Run(self, frame) ==
    CASE self.kind = "Mapping" -> MappingAnalyzer_analyze(self, frame)
      [] self.kind = "Choice" -> ChoiceAnalyzer_analyze(self, frame)
      [] self.kind = "TableOfContent" -> TableOfContentAnalyzer_analyze(self, frame)
      [] self.kind = "ColumnSubset" -> ColumnSubsetAnalyzer_analyze(self, frame)

CompositeKinds == {"Mapping", "Choice", "TableOfContent", "ColumnSubset"}

\* BaseAnalyzer.analyze, dispatched on the class of the analyzer
Analyze(self, frame) ==
    CASE self.kind \in CompositeKinds -> Run(self, frame).result
      [] self.kind = "ColumnContinuous" -> Returned(ColumnContinuousAnalyzer_analyze(self, frame))
      [] self.kind = "ColumnTemporalContinuous" -> Returned(ColumnTemporalContinuousAnalyzer_analyze(self, frame))
      [] self.kind = "ColumnDiscrete" -> Returned(ColumnDiscreteAnalyzer_analyze(self, frame))
      [] self.kind = "ColumnTemporalDiscrete" -> Returned(ColumnTemporalDiscreteAnalyzer_analyze(self, frame))
      [] self.kind = "MostFrequentValues" -> Returned(MostFrequentValuesAnalyzer_analyze(self, frame))
      [] self.kind = "TemporalRowCount" -> Returned(TemporalRowCountAnalyzer_analyze(self, frame))
      [] self.kind = "TemporalNullValue" -> Returned(TemporalNullValueAnalyzer_analyze(self, frame))
      [] self.kind = "GlobalTemporalNullValue" -> Returned(GlobalTemporalNullValueAnalyzer_analyze(self, frame))
      [] self.kind = "NullValue" -> Returned(NullValueAnalyzer_analyze(self, frame))
      [] self.kind = "DuplicatedRow" -> Returned(DuplicatedRowAnalyzer_analyze(self, frame))

\* the analyzers a caller may construct
ColumnAnalyzers ==
    [kind : {"ColumnContinuous"}, column : {"col", "x"}]
    \cup [kind : {"ColumnDiscrete"}, column : {"col", "x"}, dropna : BOOLEAN]
    \cup [kind : {"MostFrequentValues"}, column : {"col"}, dropna : BOOLEAN, top : {100}]

TemporalColumnAnalyzers ==
    [kind : TemporalColumnKinds, column : {"col", "x"}, dt_column : {"dt"}, period : {"M"}]

TemporalAnalyzers ==
    [kind : {"TemporalRowCount", "GlobalTemporalNullValue"}, dt_column : {"dt"}, period : {"M"}]
    \cup [kind : {"TemporalNullValue"}, dt_column : {"dt"}, period : {"M"}, ncols : {2}]

\* the leaf analyzers that name a required column and/or a datetime column
RequiringAnalyzers == ColumnAnalyzers \cup TemporalColumnAnalyzers \cup TemporalAnalyzers

NullValueAnalyzer == [kind |-> "NullValue"]
DuplicatedRowAnalyzer == [kind |-> "DuplicatedRow"]

LeafAnalyzers == RequiringAnalyzers \cup {NullValueAnalyzer, DuplicatedRowAnalyzer}

\* the columns an analyzer's configuration names
RequiredColumns(self) ==
    (IF self.kind \in ColumnKinds \cup TemporalColumnKinds THEN {self.column} ELSE {})
    \cup (IF self.kind \in TemporalColumnKinds \cup TemporalKinds THEN {self.dt_column} ELSE {})

\* type(x) of a cell of a numeric column
TypeOf(cell) == IF cell = Null THEN "float" ELSE "int"

\* sum(counter.values())
RECURSIVE CounterTotal(_)
CounterTotal(counter) ==
    IF counter = <<>> THEN 0 ELSE Head(counter).count + CounterTotal(Tail(counter))

\* Counter.most_common that lists the n entries with the smallest counts
most_common_Least(counter, n) ==
    SubSeq(SortByCount(counter), Len(counter) - Min2(Max2(n, 0), Len(counter)) + 1,
           Len(counter))

\* Counter.most_common(n): the n entries with the largest counts, none when
\* n <= 0
most_common(counter, n) ==
    SubSeq(SortByCount(counter), 1, Min2(Max2(n, 0), Len(counter)))

\* ColumnTypeSection.get_statistics that returns the empty bundle
ColumnTypeSection_get_statistics_Empty(self) == <<>>

\* ColumnTypeSection.get_statistics: a copy of the types of each column
ColumnTypeSection_get_statistics(self) == self.types

\* ColumnDtypeSection.get_statistics: the dtype of each column
ColumnDtypeSection_get_statistics(self) == self.dtypes

\* DuplicatedRowSection.get_statistics
DuplicatedRowSection_get_statistics(self) ==
    [num_rows |-> NumRows(self.frame),
     num_unique_rows |->
        Cardinality({[i \in 1..NumColumns(self.frame) |-> self.frame.data[i].values[j]] :
                        j \in 1..NumRows(self.frame)})]

\* Section.get_statistics
RECURSIVE GetStatistics(_)
GetStatistics(section) ==
    CASE section.kind = "EmptySection" -> <<>>
      [] section.kind = "NullValueSection" ->
            [columns |-> section.columns, null_count |-> section.null_count,
             total_count |-> section.total_count]
      [] section.kind = "DataFrameSummarySection" ->
            [columns |-> Columns(section.df),
             null_count |-> [i \in 1..NumColumns(section.df) |->
                                IsnaSum(section.df.data[i].values)],
             nunique |-> [i \in 1..NumColumns(section.df) |->
                                Cardinality(Range(section.df.data[i].values))],
             column_types |-> [i \in 1..NumColumns(section.df) |->
                                {TypeOf(section.df.data[i].values[j]) :
                                    j \in DOMAIN section.df.data[i].values}]]
      [] section.kind = "MostFrequentValuesSection" ->
            [most_common |-> most_common(section.counter, section.top)]
      [] section.kind = "ColumnDiscreteSection" ->
            LET listed == SelectSeq(SortByCount(section.counter), LAMBDA e : e.count > 0)
            IN [most_common |-> listed, nunique |-> Len(listed),
                total |-> CounterTotal(section.counter)]
      [] section.kind \in {"TemporalNullValueSection", "GlobalTemporalNullValueSection",
                           "ColumnTemporalContinuousSection", "TemporalRowCountSection"} -> <<>>
      [] section.kind = "ColumnTypeSection" -> ColumnTypeSection_get_statistics(section)
      [] section.kind = "ColumnDtypeSection" -> ColumnDtypeSection_get_statistics(section)
      [] section.kind = "DuplicatedRowSection" -> DuplicatedRowSection_get_statistics(section)
      [] section.kind = "TableOfContentSection" -> GetStatistics(section.section)
      [] OTHER -> [section |-> section.kind]

\* ------------------------------------------------- leaf analysis (SpecLeaf)
InitLeaf ==
    /\ df \in Frames
    /\ op = NoOp
    /\ result = Raised("none")
    /\ calls = <<>>
    /\ sel_calls = 0
    /\ analyzers = <<>>
    /\ max_toc_depth = 0
    /\ root = EmptySection
    /\ args = <<>>

\* analyzer.analyze(df) on a leaf analyzer
LeafAnalyze ==
    \E a \in LeafAnalyzers :
        /\ op' = AnalyzeCall(a, df)
        /\ result' = Analyze(a, df)
        /\ UNCHANGED <<df, calls, sel_calls, analyzers, max_toc_depth, root, args>>

NextLeaf == LeafAnalyze

SpecLeaf == InitLeaf /\ [][NextLeaf]_vars

\* C1: a leaf analyzer that names a required column and/or a datetime column,
\* run on a DataFrame lacking one of them, raises nothing and returns an
\* EmptySection whose get_statistics() is {}, whatever else the frame holds.
C1_MissingColumnGivesEmptySection ==
    (/\ op.kind = "analyze"
     /\ op.analyzer \in RequiringAnalyzers
     /\ \E c \in RequiredColumns(op.analyzer) : ~HasColumn(op.df, c))
    => (/\ result.raised = "none"
        /\ result.section = EmptySection
        /\ GetStatistics(result.section) = <<>>)

\* a temporal discrete analysis of a frame that holds the column and other
\* data but not the datetime column
C1_Witness ==
    /\ op.kind = "analyze"
    /\ op.analyzer.kind = "ColumnTemporalDiscrete"
    /\ HasColumn(op.df, op.analyzer.column)
    /\ ~HasColumn(op.df, op.analyzer.dt_column)
    /\ NumColumns(op.df) = 2
    /\ NumRows(op.df) > 0
    /\ result = Returned(EmptySection)

\* ------------------------------------------- MappingAnalyzer (SpecMapping)
Section1 == <<"s", "1">>
Section2 == <<"S", " ", "2">>
SectionNames == {Section1, Section2}

ColumnSubsetAnalyzers ==
    [kind : {"ColumnSubset"},
     columns : {<<"col">>, <<"x", "col">>, <<"col", "dt">>, <<>>},
     analyzer : {NullValueAnalyzer, [kind |-> "ColumnDiscrete", column |-> "col", dropna |-> FALSE]}]

\* the analyzers registered as children of a composite
ChildAnalyzers ==
    {NullValueAnalyzer,
     [kind |-> "TemporalRowCount", dt_column |-> "dt", period |-> "M"],
     [kind |-> "ColumnSubset", columns |-> <<"x", "col">>, analyzer |-> NullValueAnalyzer]}

\* the frames the mapping analyzer is run on
MappingFrames == {f \in Frames : Columns(f) \in {<<>>, <<"col">>, <<"dt", "col">>, <<"col", "x">>}}

\* the MappingAnalyzer object
Mapping == [kind |-> "Mapping", analyzers |-> analyzers, max_toc_depth |-> max_toc_depth]

\* MappingAnalyzer({}, max_toc_depth=d)
InitMapping ==
    /\ df \in MappingFrames
    /\ op = NoOp
    /\ result = Raised("none")
    /\ calls = <<>>
    /\ sel_calls = 0
    /\ analyzers = <<>>
    /\ max_toc_depth \in 0..MaxTocDepth
    /\ root = EmptySection
    /\ args = <<>>

\* analyzer.analyze(df) on the MappingAnalyzer
MappingAnalyze ==
    /\ op' = AnalyzeCall(Mapping, df)
    /\ result' = Run(Mapping, df).result
    /\ calls' = Run(Mapping, df).calls
    /\ sel_calls' = Run(Mapping, df).sel_calls
    /\ df' = Run(Mapping, df).df
    /\ UNCHANGED <<analyzers, max_toc_depth, root, args>>

AddAnalyzer ==
    \E name \in SectionNames, a \in ChildAnalyzers, replace_ok \in BOOLEAN :
        LET e == MappingAnalyzer_add_analyzer(Mapping, name, a, replace_ok)
        IN /\ op' = [kind |-> "add_analyzer", name |-> name, analyzer |-> a,
                     replace_ok |-> replace_ok]
           /\ result' = e.result
           /\ analyzers' = e.analyzers
           /\ calls' = <<>>
           /\ sel_calls' = 0
           /\ UNCHANGED <<df, max_toc_depth, root, args>>

NextMapping == MappingAnalyze \/ AddAnalyzer

SpecMapping == InitMapping /\ [][NextMapping]_vars

\* C2: a MappingAnalyzer.analyze(df) that returns has called analyze exactly
\* once on every registered child, each time with df, and returns a
\* SectionDict whose names are the registered names in insertion order and
\* whose max_toc_depth is the analyzer's.
C2_MappingAnalyzeCallsEveryChildOnce ==
    (op.kind = "analyze" /\ op.analyzer.kind = "Mapping" /\ result.raised = "none")
    => (/\ \A i \in DOMAIN op.analyzer.analyzers :
              Cardinality({j \in DOMAIN calls :
                  /\ calls[j].key = op.analyzer.analyzers[i].key
                  /\ calls[j].analyzer = op.analyzer.analyzers[i].value}) = 1
        /\ Len(calls) = Len(op.analyzer.analyzers)
        /\ \A j \in DOMAIN calls : calls[j].df = op.df
        /\ result.section.kind = "SectionDict"
        /\ DictKeys(result.section.sections) = DictKeys(op.analyzer.analyzers)
        /\ result.section.max_toc_depth = op.analyzer.max_toc_depth)

\* two children registered as Section2 then Section1, analyzed into a
\* SectionDict that keeps that order
C2_Witness ==
    /\ op.kind = "analyze"
    /\ op.analyzer.kind = "Mapping"
    /\ DictKeys(op.analyzer.analyzers) = <<Section2, Section1>>
    /\ op.analyzer.max_toc_depth = 2
    /\ result.raised = "none"
    /\ DictKeys(result.section.sections) = <<Section2, Section1>>
    /\ Len(calls) = 2

\* C3: add_analyzer under a name already registered raises KeyError and keeps
\* the registered child when replace_ok is False; with replace_ok True it
\* succeeds and the name then looks up the new child.
C3_AddAnalyzerReplacePolicy ==
    [][(op'.kind = "add_analyzer" /\ DictHas(analyzers, op'.name))
       => IF op'.replace_ok
          THEN /\ result'.raised = "none"
               /\ DictHas(analyzers', op'.name)
               /\ DictGet(analyzers', op'.name) = op'.analyzer
          ELSE /\ result'.raised = "KeyError"
               /\ DictHas(analyzers', op'.name)
               /\ DictGet(analyzers', op'.name) = DictGet(analyzers, op'.name)]_vars

\* a refused registration: the name keeps a child other than the offered one
C3_Witness ==
    /\ op.kind = "add_analyzer"
    /\ ~op.replace_ok
    /\ result.raised = "KeyError"
    /\ DictHas(analyzers, op.name)
    /\ DictGet(analyzers, op.name) # op.analyzer
    /\ Len(analyzers) = 2

\* -------------------------------------- wrappers and choice (SpecWrap)
ChoiceAnalyzers ==
    [kind : {"Choice"},
     analyzers : {<<[key |-> "null", value |-> NullValueAnalyzer],
                    [key |-> "duplicate", value |-> DuplicatedRowAnalyzer]>>,
                  <<[key |-> "duplicate", value |-> DuplicatedRowAnalyzer],
                    [key |-> "null", value |-> [kind |-> "ColumnSubset", columns |-> <<"x">>,
                                                analyzer |-> NullValueAnalyzer]]>>,
                  <<[key |-> "null", value |-> NullValueAnalyzer]>>}]

TableOfContentAnalyzers ==
    [kind : {"TableOfContent"}, analyzer : ChildAnalyzers, max_toc_depth : 0..MaxTocDepth]

InitWrap == InitLeaf

\* analyzer.analyze(df) on a ChoiceAnalyzer
ChoiceAnalyze ==
    \E a \in ChoiceAnalyzers :
        /\ op' = AnalyzeCall(a, df)
        /\ result' = Run(a, df).result
        /\ calls' = Run(a, df).calls
        /\ sel_calls' = Run(a, df).sel_calls
        /\ df' = Run(a, df).df
        /\ UNCHANGED <<analyzers, max_toc_depth, root, args>>

\* analyzer.analyze(df) on a TableOfContentAnalyzer
TableOfContentAnalyze ==
    \E a \in TableOfContentAnalyzers :
        /\ op' = AnalyzeCall(a, df)
        /\ result' = Run(a, df).result
        /\ calls' = Run(a, df).calls
        /\ sel_calls' = Run(a, df).sel_calls
        /\ df' = Run(a, df).df
        /\ UNCHANGED <<analyzers, max_toc_depth, root, args>>

\* analyzer.analyze(df) on a ColumnSubsetAnalyzer
ColumnSubsetAnalyze ==
    \E a \in ColumnSubsetAnalyzers :
        /\ op' = AnalyzeCall(a, df)
        /\ result' = Run(a, df).result
        /\ calls' = Run(a, df).calls
        /\ sel_calls' = Run(a, df).sel_calls
        /\ df' = Run(a, df).df
        /\ UNCHANGED <<analyzers, max_toc_depth, root, args>>

NextWrap == ChoiceAnalyze \/ TableOfContentAnalyze \/ ColumnSubsetAnalyze

SpecWrap == InitWrap /\ [][NextWrap]_vars

\* C4: ChoiceAnalyzer.analyze(df) evaluates the selection function once on
\* df, calls analyze only on the analyzer registered under the returned
\* name, and returns what that analyzer returns, with no section around it.
C4_ChoiceDelegatesToSelected ==
    (op.kind = "analyze" /\ op.analyzer.kind = "Choice")
    => LET name == IF AnyNull(op.df) THEN "null" ELSE "duplicate"
       IN /\ sel_calls = 1
          /\ \A j \in DOMAIN calls :
                /\ calls[j].key = name
                /\ calls[j].analyzer = DictGet(op.analyzer.analyzers, name)
                /\ calls[j].df = op.df
          /\ DictHas(op.analyzer.analyzers, name)
                => /\ Len(calls) = 1
                   /\ result = Analyze(DictGet(op.analyzer.analyzers, name), op.df)

\* the frame has a null, and the section returned is the NullValueSection of
\* the analyzer registered as "null"
C4_Witness ==
    /\ op.kind = "analyze"
    /\ op.analyzer.kind = "Choice"
    /\ AnyNull(op.df)
    /\ NumColumns(op.df) = 2
    /\ Len(op.analyzer.analyzers) = 2
    /\ Len(calls) = 1
    /\ result.raised = "none"
    /\ result.section.kind = "NullValueSection"
    /\ \E i \in DOMAIN result.section.null_count : result.section.null_count[i] = 1

\* C7: TableOfContentAnalyzer.analyze(df) calls the child's analyze exactly
\* once on df and returns a TableOfContentSection around the child's section
\* with the analyzer's max_toc_depth.
C7_TocAnalyzerWrapsChild ==
    (op.kind = "analyze" /\ op.analyzer.kind = "TableOfContent")
    => (/\ Len(calls) = 1
        /\ calls[1].analyzer = op.analyzer.analyzer
        /\ calls[1].df = op.df
        /\ result.raised = "none"
              => /\ result.section.kind = "TableOfContentSection"
                 /\ Returned(result.section.section) = Analyze(op.analyzer.analyzer, op.df)
                 /\ result.section.max_toc_depth = op.analyzer.max_toc_depth)

C7_Witness ==
    /\ op.kind = "analyze"
    /\ op.analyzer.kind = "TableOfContent"
    /\ op.analyzer.max_toc_depth = 2
    /\ result.raised = "none"
    /\ result.section.kind = "TableOfContentSection"
    /\ result.section.section.kind = "NullValueSection"
    /\ result.section.section.columns = <<"x", "col">>

\* C8: ColumnSubsetAnalyzer.analyze(df) hands its child a frame holding
\* exactly the configured columns in the configured order, and the caller's
\* frame is the same after the call.
C8_ColumnSubsetProjects ==
    (op.kind = "analyze" /\ op.analyzer.kind = "ColumnSubset")
    => (/\ df = op.df
        /\ \A j \in DOMAIN calls :
              /\ Columns(calls[j].df) = op.analyzer.columns
              /\ NumRows(calls[j].df) = NumRows(op.df)
              /\ \A i \in DOMAIN op.analyzer.columns :
                    calls[j].df.data[i].values = Column(op.df, op.analyzer.columns[i])
        /\ result.raised = "none" => Len(calls) = 1)

\* the configured order differs from the frame's, and a column is left out
C8_Witness ==
    /\ op.kind = "analyze"
    /\ op.analyzer.kind = "ColumnSubset"
    /\ op.analyzer.columns = <<"x", "col">>
    /\ Columns(op.df) = <<"col", "dt", "x">>
    /\ NumRows(op.df) = 1
    /\ Column(op.df, "x") # Column(op.df, "col")
    /\ Len(calls) = 1
    /\ Columns(calls[1].df) = <<"x", "col">>
    /\ result.raised = "none"

\* ------------------------------------------------------------------ strings
\* str.lower() on one character of the alphabet used here
LowerChar(c) ==
    CASE c = "A" -> "a"
      [] c = "B" -> "b"
      [] c = "S" -> "s"
      [] OTHER -> c

\* s.lower()
Lower(s) == [i \in DOMAIN s |-> LowerChar(s[i])]

\* s.replace(" ", "-")
ReplaceSpace(s) == [i \in DOMAIN s |-> IF s[i] = " " THEN "-" ELSE s[i]]

\* sep.join(strs)
RECURSIVE Join(_, _)
Join(sep, strs) ==
    IF strs = <<>> THEN <<>>
    ELSE IF Len(strs) = 1 THEN strs[1]
    ELSE strs[1] \o sep \o Join(sep, Tail(strs))

\* s[::-1]
Reverse(s) == [i \in DOMAIN s |-> s[Len(s) + 1 - i]]

\* ------------------------------------------------------- section rendering
\* tags2id without the final lower()
tags2id_NoLower(tags) == ReplaceSpace(Join(<<"-">>, tags))

tags2id(tags) == Lower(ReplaceSpace(Join(<<"-">>, tags)))

tags2title(tags) == Join(<<" ", "|", " ">>, Reverse(tags))

\* valid_h_tag without the upper limit
valid_h_tag_NoUpperLimit(index) == Max2(1, index)

valid_h_tag(index) == Max2(1, Min2(6, index))

\* render_html_toc that still emits the entry at depth == max_depth
render_html_toc_OffByOne(number, tags, depth, max_depth) ==
    IF depth > max_depth THEN <<>>
    ELSE LET tag == IF tags # <<>> THEN tags[Len(tags)] ELSE <<>>
         IN <<[elem |-> "li", href |-> <<"#">> \o tags2id(tags), number |-> number,
               text |-> tag]>>

\* render_html_toc that links to the tags joined as they are
render_html_toc_RawAnchor(number, tags, depth, max_depth) ==
    IF depth >= max_depth THEN <<>>
    ELSE LET tag == IF tags # <<>> THEN tags[Len(tags)] ELSE <<>>
         IN <<[elem |-> "li", href |-> <<"#">> \o Join(<<"-">>, tags), number |-> number,
               text |-> tag]>>

\* render_html_toc: "" is the empty sequence of elements, the <li> entry is
\* one element with its link target and its text
render_html_toc(number, tags, depth, max_depth) ==
    IF depth >= max_depth THEN <<>>
    ELSE LET tag == IF tags # <<>> THEN tags[Len(tags)] ELSE <<>>
         IN <<[elem |-> "li", href |-> <<"#">> \o tags2id(tags), number |-> number,
               text |-> tag]>>

\* the <h{{depth}} id="{{id}}">{{section}} {{title}} </h{{depth}}> line of a
\* section's template
Heading(number, tags, depth) ==
    [elem |-> "h", level |-> valid_h_tag(depth + 1), id |-> tags2id(tags),
     number |-> number, title |-> tags2title(tags)]

\* NullValueSection._create_bar_figure: the bar chart is drawn whatever the
\* counts are
NullValueSection__create_bar_figure(self) == "figure"

\* the figure slots of a section's template, in order: "figure" is the markup
\* of a drawn figure, "no figure" the warning message put in its place, "" no
\* markup at all
Figures(self) ==
    CASE self.kind = "ColumnDiscreteSection" ->
            <<IF CounterTotal(self.counter) = 0 THEN "no figure" ELSE "figure">>
      [] self.kind = "NullValueSection" -> <<NullValueSection__create_bar_figure(self)>>
      [] self.kind \in {"GlobalTemporalNullValueSection", "TemporalNullValueSection",
                        "ColumnTemporalContinuousSection"} ->
            <<IF NumRows(self.df) = 0 THEN "" ELSE "figure">>
      [] self.kind \in {"MostFrequentValuesSection", "DataFrameSummarySection"} -> <<>>

\* render_html_body of a leaf section: the heading, then the section's text,
\* figures and tables
LeafSection_render_html_body(self, number, tags, depth) ==
    <<Heading(number, tags, depth),
      [elem |-> "content", of |-> self.kind, figures |-> Figures(self)]>>

\* render_html_toc of a leaf section
LeafSection_render_html_toc(self, number, tags, depth, max_depth) ==
    render_html_toc(number, tags, depth, max_depth)

RECURSIVE Concat(_)
Concat(seqs) == IF seqs = <<>> THEN <<>> ELSE Head(seqs) \o Concat(Tail(seqs))

RECURSIVE RenderBody(_, _, _, _)
RECURSIVE RenderToc(_, _, _, _, _)

\* ChildArgs that hands the parent's depth on
ChildArgs_SameDepth(self, i, number, tags, depth) ==
    [key |-> self.sections[i].key,
     number |-> Append(number, i),
     tags |-> Append(tags, self.sections[i].key),
     depth |-> depth]

\* the arguments a SectionDict renders its i-th child with
ChildArgs(self, i, number, tags, depth) ==
    [key |-> self.sections[i].key,
     number |-> Append(number, i),
     tags |-> Append(tags, self.sections[i].key),
     depth |-> depth + 1]

\* SectionDict.render_html_body
SectionDict_render_html_body(self, number, tags, depth) ==
    LET child == [i \in DOMAIN self.sections |-> ChildArgs(self, i, number, tags, depth)]
    IN [calls |-> child,
        result |-> <<Heading(number, tags, depth)>>
                   \o Concat([i \in DOMAIN self.sections |->
                        RenderBody(self.sections[i].value, child[i].number,
                                   child[i].tags, child[i].depth)])]

\* SectionDict.render_html_toc
SectionDict_render_html_toc(self, number, tags, depth, max_depth) ==
    LET child == [i \in DOMAIN self.sections |-> ChildArgs(self, i, number, tags, depth)]
    IN IF depth >= max_depth THEN [calls |-> <<>>, result |-> <<>>]
       ELSE [calls |-> child,
             result |-> render_html_toc(number, tags, depth, max_depth)
                        \o <<[elem |-> "ul",
                              items |-> Concat([i \in DOMAIN self.sections |->
                                  RenderToc(self.sections[i].value, child[i].number,
                                            child[i].tags, child[i].depth, max_depth)])]>>]

\* BaseSection.render_html_body
RenderBody(self, number, tags, depth) ==
    CASE self.kind = "SectionDict" -> SectionDict_render_html_body(self, number, tags, depth).result
      [] self.kind = "EmptySection" -> <<>>
      [] OTHER -> LeafSection_render_html_body(self, number, tags, depth)

\* BaseSection.render_html_toc
RenderToc(self, number, tags, depth, max_depth) ==
    CASE self.kind = "SectionDict" ->
            SectionDict_render_html_toc(self, number, tags, depth, max_depth).result
      [] self.kind = "EmptySection" -> <<>>
      [] OTHER -> LeafSection_render_html_toc(self, number, tags, depth, max_depth)

\* the render calls a section makes on its children
BodyCalls(self, number, tags, depth) ==
    IF self.kind = "SectionDict"
    THEN SectionDict_render_html_body(self, number, tags, depth).calls
    ELSE <<>>

TocCalls(self, number, tags, depth, max_depth) ==
    IF self.kind = "SectionDict"
    THEN SectionDict_render_html_toc(self, number, tags, depth, max_depth).calls
    ELSE <<>>

\* --------------------------------------------------- rendering (SpecRender)
MaxTags == 2
MaxDepth == 7

SampleFrame == [nrows |-> 1, data |-> <<[name |-> "col", values |-> <<Null>>]>>]

NullValueSample == NullValueAnalyzer_analyze(NullValueAnalyzer, SampleFrame)

ColumnDiscreteSample ==
    ColumnDiscreteAnalyzer_analyze(
        [kind |-> "ColumnDiscrete", column |-> "col", dropna |-> FALSE], SampleFrame)

SectionDictOf(keys, depth) ==
    [kind |-> "SectionDict",
     sections |-> [i \in DOMAIN keys |->
        [key |-> keys[i],
         value |-> IF i = 2 THEN ColumnDiscreteSample ELSE NullValueSample]],
     max_toc_depth |-> depth]

SectionDicts ==
    {SectionDictOf(keys, 1) :
        keys \in {k \in SeqsUpTo(SectionNames, Cardinality(SectionNames)) : IsInjective(k)}}

NestedSectionDict ==
    [kind |-> "SectionDict",
     sections |-> <<[key |-> Section2, value |-> SectionDictOf(<<Section1, Section2>>, 1)],
                    [key |-> Section1, value |-> EmptySection]>>,
     max_toc_depth |-> 1]

\* two sibling sections registered under the names "S 2" and "s-2"
SiblingSectionDict == SectionDictOf(<<Section2, <<"s", "-", "2">>>>, 1)

LeafSections == {NullValueSample, ColumnDiscreteSample}

RenderSections ==
    LeafSections \cup SectionDicts \cup {NestedSectionDict, SiblingSectionDict, EmptySection}

Tags == SectionNames \cup {<<"A", "-", "b">>}

\* a section number "2.1." is the sequence of its components
Numbers == {<<>>, <<2, 1>>}

RenderArgs ==
    [number : Numbers, tags : SeqsUpTo(Tags, MaxTags), depth : -1..MaxDepth,
     max_depth : -1..MaxTocDepth]

InitRender ==
    /\ df = SampleFrame
    /\ op = NoOp
    /\ result = Raised("none")
    /\ calls = <<>>
    /\ sel_calls = 0
    /\ analyzers = <<>>
    /\ max_toc_depth = 0
    /\ root \in RenderSections
    /\ args \in RenderArgs

\* root.render_html_body(number, tags, depth)
RenderHtmlBody ==
    /\ op' = [kind |-> "render_html_body"]
    /\ result' = RenderBody(root, args.number, args.tags, args.depth)
    /\ calls' = BodyCalls(root, args.number, args.tags, args.depth)
    /\ UNCHANGED <<df, sel_calls, analyzers, max_toc_depth, root, args>>

\* root.render_html_toc(number, tags, depth, max_depth)
RenderHtmlToc ==
    /\ op' = [kind |-> "render_html_toc"]
    /\ result' = RenderToc(root, args.number, args.tags, args.depth, args.max_depth)
    /\ calls' = TocCalls(root, args.number, args.tags, args.depth, args.max_depth)
    /\ UNCHANGED <<df, sel_calls, analyzers, max_toc_depth, root, args>>

NextRender == RenderHtmlBody \/ RenderHtmlToc

SpecRender == InitRender /\ [][NextRender]_vars

IsLeaf(sec) == sec.kind \notin {"SectionDict", "EmptySection", "TableOfContentSection"}

\* C5: render_html_toc(number, tags, depth=d, max_depth=m) returns "" exactly
\* when d >= m, and exactly one non-empty <li> entry when d < m.
C5_TocEmptyIffDepthReached ==
    (op.kind = "render_html_toc" /\ IsLeaf(root))
    => (/\ (result = <<>>) <=> (args.depth >= args.max_depth)
        /\ args.depth < args.max_depth => (Len(result) = 1 /\ result[1].elem = "li"))

C5_Witness ==
    /\ op.kind = "render_html_toc"
    /\ IsLeaf(root)
    /\ args.depth = -1
    /\ args.max_depth = 0
    /\ Len(args.tags) = 2
    /\ Len(result) = 1
    /\ result[1].text = args.tags[2]

\* C6: a composite section renders child i (body or table of contents) with
\* depth = its own depth + 1 and tags = its own tags followed by the child's
\* name, in insertion order, and the children's numbers extend the parent's
\* and increase in insertion order.
C6_CompositePassesDepthTagsNumber ==
    (op.kind \in {"render_html_body", "render_html_toc"} /\ root.kind = "SectionDict")
    => (/\ (op.kind = "render_html_body" \/ args.depth < args.max_depth)
              => Len(calls) = Len(root.sections)
        /\ \A i \in DOMAIN calls :
              /\ calls[i].key = root.sections[i].key
              /\ calls[i].depth = args.depth + 1
              /\ calls[i].tags = args.tags \o <<root.sections[i].key>>
              /\ Len(calls[i].number) = Len(args.number) + 1
              /\ SubSeq(calls[i].number, 1, Len(args.number)) = args.number
        /\ \A i, j \in DOMAIN calls :
              i < j => calls[i].number[Len(calls[i].number)] < calls[j].number[Len(calls[j].number)])

C6_Witness ==
    /\ op.kind = "render_html_toc"
    /\ root.kind = "SectionDict"
    /\ DictKeys(root.sections) = <<Section2, Section1>>
    /\ args.tags = <<Section1>>
    /\ args.number = <<2, 1>>
    /\ args.depth = 1
    /\ Len(calls) = 2
    /\ calls[2].tags = <<Section1, Section1>>
    /\ calls[2].depth = 2

\* C9 as amended: a leaf section's render_html_body emits one heading, whose
\* level is depth + 1 clamped into [1, 6]: 1 for depth <= 0, depth + 1 for
\* 0 <= depth <= 5, 6 for depth >= 5; so no level is below 1 or above 6.
C9_HeadingLevelIsDepthPlusOneClamped ==
    (op.kind = "render_html_body" /\ IsLeaf(root))
    => (/\ Cardinality({i \in DOMAIN result : result[i].elem = "h"}) = 1
        /\ result[1].elem = "h"
        /\ result[1].level \in 1..6
        /\ args.depth <= 0 => result[1].level = 1
        /\ args.depth \in 0..5 => result[1].level = args.depth + 1
        /\ args.depth >= 5 => result[1].level = 6)

C9_Witness ==
    /\ op.kind = "render_html_body"
    /\ IsLeaf(root)
    /\ args.depth = 7
    /\ result[1].level = 6

\* C9 as stated: the heading level is the given depth clamped into [1, 6]
C9_HeadingLevelIsDepthClamped ==
    (op.kind = "render_html_body" /\ IsLeaf(root))
    => result[1].level = (IF args.depth < 1 THEN 1 ELSE IF args.depth > 6 THEN 6 ELSE args.depth)

\* where tag i starts in the join of tags with a separator of seplen characters
RECURSIVE StartOf(_, _, _)
StartOf(tags, i, seplen) ==
    IF i = 1 THEN 0 ELSE StartOf(tags, i - 1, seplen) + Len(tags[i - 1]) + seplen

JoinedLen(tags, seplen) ==
    IF tags = <<>> THEN 0 ELSE StartOf(tags, Len(tags), seplen) + Len(tags[Len(tags)])

\* C10: the DOM id is the tags joined in order (with "-"), lowercased, every
\* space replaced by a hyphen; the title is the tags in reverse order joined
\* with " | ".
C10_IdAndTitleOfTags ==
    (op.kind = "render_html_body" /\ IsLeaf(root))
    => LET tags == args.tags
           rev == [i \in DOMAIN tags |-> tags[Len(tags) + 1 - i]]
           id == result[1].id
           title == result[1].title
       IN /\ Len(id) = JoinedLen(tags, 1)
          /\ \A i \in DOMAIN tags :
                /\ \A j \in DOMAIN tags[i] :
                      id[StartOf(tags, i, 1) + j] =
                          (IF tags[i][j] = " " THEN "-" ELSE LowerChar(tags[i][j]))
                /\ i > 1 => id[StartOf(tags, i, 1)] = "-"
          /\ \A k \in DOMAIN id : id[k] # " " /\ LowerChar(id[k]) = id[k]
          /\ Len(title) = JoinedLen(rev, 3)
          /\ \A i \in DOMAIN rev :
                /\ \A j \in DOMAIN rev[i] : title[StartOf(rev, i, 3) + j] = rev[i][j]
                /\ i > 1 => /\ title[StartOf(rev, i, 3) - 2] = " "
                            /\ title[StartOf(rev, i, 3) - 1] = "|"
                            /\ title[StartOf(rev, i, 3)] = " "

C10_Witness ==
    /\ op.kind = "render_html_body"
    /\ IsLeaf(root)
    /\ args.tags = <<Section1, Section2>>
    /\ result[1].id = <<"s", "1", "-", "s", "-", "2">>
    /\ result[1].title = <<"S", " ", "2", " ", "|", " ", "s", "1">>

\* ------------------------------------------------ configuration (SpecConfig)
MaxTop == 2

\* the rank of a column label in sorted(df.columns)
NameRank(name) ==
    CASE name = "col" -> 1
      [] name = "dt" -> 2
      [] name = "x" -> 3

\* sorted(labels)
RECURSIVE Sorted(_)
Sorted(labels) ==
    IF labels = <<>> THEN <<>>
    ELSE LET k == CHOOSE i \in DOMAIN labels :
                    \A j \in DOMAIN labels : NameRank(labels[i]) <= NameRank(labels[j])
             rest == [j \in 1..(Len(labels) - 1) |->
                        IF j < k THEN labels[j] ELSE labels[j + 1]]
         IN <<labels[k]>> \o Sorted(rest)

DataFrameSummaryAnalyzer___init__(top, sort) ==
    IF top < 0 THEN Raised("ValueError")
    ELSE Returned([kind |-> "DataFrameSummary", top |-> top, sort |-> sort])

DataFrameSummarySection___init__(frame, top) ==
    IF top < 0 THEN Raised("ValueError")
    ELSE Returned([kind |-> "DataFrameSummarySection", df |-> frame, top |-> top])

MostFrequentValuesAnalyzer___init__(column, dropna, top) ==
    Returned([kind |-> "MostFrequentValues", column |-> column, dropna |-> dropna,
              top |-> top])

\* DataFrameSummaryAnalyzer.analyze: the sorted frame is a new frame bound to
\* the local name df
\* DataFrameSummaryAnalyzer.analyze that sorts the caller's frame in place
DataFrameSummaryAnalyzer_analyze_SortInPlace(self, frame) ==
    LET local == IF self.sort THEN Select(frame, Sorted(Columns(frame))) ELSE frame
    IN [df |-> local, result |-> DataFrameSummarySection___init__(local, self.top)]

\* [df: the caller's frame after the call, result: what the call returned]
DataFrameSummaryAnalyzer_analyze(self, frame) ==
    LET local == IF self.sort THEN Select(frame, Sorted(Columns(frame))) ELSE frame
    IN [df |-> frame, result |-> DataFrameSummarySection___init__(local, self.top)]

\* analyzer.analyze(frame): the caller's frame after the call and what the
\* call returned; the leaf analyzers only read the frame
AnalyzeEffect(self, frame) ==
    IF self.kind = "DataFrameSummary" THEN DataFrameSummaryAnalyzer_analyze(self, frame)
    ELSE IF self.kind \in CompositeKinds
         THEN [df |-> Run(self, frame).df, result |-> Run(self, frame).result]
         ELSE [df |-> frame, result |-> Analyze(self, frame)]

\* an analyzer of one of the classes that take a top parameter
AnalyzeTop(self, frame) == AnalyzeEffect(self, frame).result

ConfigFrames == {f \in Frames : NumColumns(f) <= 2 /\ (NumColumns(f) = 2 => NumRows(f) = 1)}

InitConfig ==
    /\ df \in ConfigFrames
    /\ op = NoOp
    /\ result = Raised("none")
    /\ calls = <<>>
    /\ sel_calls = 0
    /\ analyzers = <<>>
    /\ max_toc_depth = 0
    /\ root = EmptySection
    /\ args \in [top : -2..MaxTop, sort : BOOLEAN]

\* DataFrameSummaryAnalyzer(top=top, sort=sort)
NewDataFrameSummaryAnalyzer ==
    /\ op' = [kind |-> "__init__", class |-> "DataFrameSummaryAnalyzer", top |-> args.top]
    /\ result' = DataFrameSummaryAnalyzer___init__(args.top, args.sort)
    /\ UNCHANGED <<df, calls, sel_calls, analyzers, max_toc_depth, root, args>>

\* DataFrameSummarySection(df, top=top)
NewDataFrameSummarySection ==
    /\ op' = [kind |-> "__init__", class |-> "DataFrameSummarySection", top |-> args.top]
    /\ result' = DataFrameSummarySection___init__(df, args.top)
    /\ UNCHANGED <<df, calls, sel_calls, analyzers, max_toc_depth, root, args>>

\* MostFrequentValuesAnalyzer(column="col", dropna=sort, top=top)
NewMostFrequentValuesAnalyzer ==
    /\ op' = [kind |-> "__init__", class |-> "MostFrequentValuesAnalyzer", top |-> args.top]
    /\ result' = MostFrequentValuesAnalyzer___init__("col", args.sort, args.top)
    /\ UNCHANGED <<df, calls, sel_calls, analyzers, max_toc_depth, root, args>>

\* analyzer.analyze(df) on the analyzer just constructed
ConfigAnalyze ==
    /\ op.kind = "__init__"
    /\ op.class \in {"DataFrameSummaryAnalyzer", "MostFrequentValuesAnalyzer"}
    /\ result.raised = "none"
    /\ op' = [kind |-> "analyze", class |-> op.class, top |-> op.top]
    /\ result' = AnalyzeTop(result.section, df)
    /\ UNCHANGED <<df, calls, sel_calls, analyzers, max_toc_depth, root, args>>

\* section.get_statistics() on the section just constructed or returned
ConfigGetStatistics ==
    /\ \/ op.kind = "analyze"
       \/ op.kind = "__init__" /\ op.class = "DataFrameSummarySection"
    /\ result.raised = "none"
    /\ op' = [kind |-> "get_statistics", class |-> op.class, top |-> op.top]
    /\ result' = Returned(GetStatistics(result.section))
    /\ UNCHANGED <<df, calls, sel_calls, analyzers, max_toc_depth, root, args>>

NextConfig ==
    \/ NewDataFrameSummaryAnalyzer
    \/ NewDataFrameSummarySection
    \/ NewMostFrequentValuesAnalyzer
    \/ ConfigAnalyze
    \/ ConfigGetStatistics

SpecConfig == InitConfig /\ [][NextConfig]_vars

\* C11: constructing a DataFrameSummaryAnalyzer, a DataFrameSummarySection or
\* a MostFrequentValuesAnalyzer with a negative top raises ValueError in the
\* constructor, and no later analyze or get_statistics call raises it.
C11_NegativeTopRaisesAtConstruction ==
    /\ (op.kind = "__init__" /\ op.top < 0) => result = Raised("ValueError")
    /\ op.kind \in {"analyze", "get_statistics"} => result.raised = "none"

\* ------------------------------------------- repeated analysis (SpecPure)
MaxCalls == 3

\* the analyzers the caller holds; args.tables are the caller's tables and
\* args.built the same tables as the caller built them
PureAnalyzers ==
    <<[kind |-> "DataFrameSummary", top |-> 1, sort |-> TRUE],
      [kind |-> "ColumnDiscrete", column |-> "col", dropna |-> TRUE],
      [kind |-> "ColumnSubset", columns |-> <<"col">>, analyzer |-> NullValueAnalyzer]>>

PureFrames ==
    UNION {FramesOf(cols, n) :
             cols \in {<<"col">>, <<"col", "dt">>, <<"dt", "col">>}, n \in 0..MaxRows}

\* what the caller sees of a call's outcome
Outcome(res) == IF res.raised = "none" THEN GetStatistics(res.section) ELSE res

InitPure ==
    /\ df = SampleFrame
    /\ op = NoOp
    /\ result = Raised("none")
    /\ calls = <<>>
    /\ sel_calls = 0
    /\ analyzers = PureAnalyzers
    /\ max_toc_depth = 0
    /\ root = EmptySection
    /\ args \in UNION {{[tables |-> <<t, s>>, built |-> <<t, s>>] : s \in {t, SampleFrame}} :
                        t \in PureFrames}

\* analyzers[i].analyze(tables[k]); the call is appended to the caller's log
PureAnalyze ==
    \E i \in DOMAIN analyzers, k \in DOMAIN args.tables :
        LET e == AnalyzeEffect(analyzers[i], args.tables[k])
        IN /\ Len(calls) < MaxCalls
           /\ op' = [kind |-> "analyze", analyzer |-> i, table |-> k]
           /\ result' = e.result
           /\ args' = [args EXCEPT !.tables[k] = e.df]
           /\ calls' = Append(calls, [analyzer |-> i, df |-> args.tables[k],
                                      statistics |-> Outcome(e.result)])
           /\ UNCHANGED <<df, sel_calls, analyzers, max_toc_depth, root>>

NextPure == PureAnalyze

SpecPure == InitPure /\ [][NextPure]_vars

\* C12: an analyze call changes neither the analyzers' configuration nor the
\* caller's tables, and two analyze calls of one analyzer on equal tables give
\* equal statistics, whatever calls were made in between.
C12_AnalyzeIsPure ==
    /\ analyzers = PureAnalyzers
    /\ args.tables = args.built
    /\ \A i, j \in DOMAIN calls :
          (calls[i].analyzer = calls[j].analyzer /\ calls[i].df = calls[j].df)
              => calls[i].statistics = calls[j].statistics

\* two calls of the sorting summary analyzer on a table whose columns are not
\* in sorted order, with a call of another analyzer on that table in between
C12_Witness ==
    /\ Len(calls) = 3
    /\ calls[1].analyzer = 1
    /\ calls[2].analyzer = 3
    /\ calls[3].analyzer = 1
    /\ calls[1].df = calls[3].df
    /\ calls[2].df = calls[1].df
    /\ Columns(calls[1].df) = <<"dt", "col">>
    /\ NumRows(calls[1].df) = 1
    /\ calls[3].statistics.columns = <<"col", "dt">>

\* ------------------------------------------- analyze then render (SpecZero)
\* the leaf analyzers whose sections are rendered here
RenderedAnalyzers ==
    {a \in LeafAnalyzers :
        a.kind \in {"ColumnDiscrete", "MostFrequentValues", "NullValue",
                    "GlobalTemporalNullValue", "TemporalNullValue",
                    "ColumnTemporalContinuous"}}
    \cup {[kind |-> "DataFrameSummary", top |-> 1, sort |-> FALSE]}

InitZero == InitLeaf

\* root = analyzer.analyze(df)
ZeroAnalyze ==
    \E a \in RenderedAnalyzers :
        /\ op' = AnalyzeCall(a, df)
        /\ result' = AnalyzeEffect(a, df).result
        /\ root' = AnalyzeEffect(a, df).result.section
        /\ UNCHANGED <<df, calls, sel_calls, analyzers, max_toc_depth, args>>

\* root.render_html_body()
ZeroRender ==
    /\ op.kind = "analyze"
    /\ op' = [kind |-> "render_html_body", analyzer |-> op.analyzer]
    /\ result' = [raised |-> "none", body |-> RenderBody(root, <<>>, <<>>, 0)]
    /\ UNCHANGED <<df, calls, sel_calls, analyzers, max_toc_depth, root, args>>

NextZero == ZeroAnalyze \/ ZeroRender

SpecZero == InitZero /\ [][NextZero]_vars

\* C13: for a table with zero rows, analyze followed by render_html_body of a
\* leaf section raises nothing, and every figure slot of the body holds the
\* "no figure" message or empty markup, never a figure.
C13_ZeroRowsRenderWithoutFigure ==
    (op.kind = "render_html_body" /\ NumRows(df) = 0 /\ root.kind # "EmptySection")
    => (/\ result.raised = "none"
        /\ \A i \in DOMAIN result.body[2].figures :
              result.body[2].figures[i] \in {"no figure", ""})

\* ------------------------------------------------------------------ floats
\* a float is NaN or a rational num / den in lowest terms with den > 0
NaN == [nan |-> TRUE, num |-> 0, den |-> 1]

Abs(n) == IF n < 0 THEN -n ELSE n

RECURSIVE Gcd(_, _)
Gcd(a, b) == IF b = 0 THEN a ELSE Gcd(b, a % b)

Rat(p, q) ==
    LET g == Gcd(Abs(p), Abs(q))
        sign == IF q < 0 THEN -1 ELSE 1
    IN [nan |-> FALSE, num |-> sign * (p \div g), den |-> sign * (q \div g)]

Float(n) == Rat(n, 1)

RatAdd(x, y) == Rat(x.num * y.den + y.num * x.den, x.den * y.den)
RatSub(x, y) == Rat(x.num * y.den - y.num * x.den, x.den * y.den)
RatMul(x, y) == Rat(x.num * y.num, x.den * y.den)
RatLe(x, y) == x.num * y.den <= y.num * x.den

\* math.sqrt of a float, kept as the float it is the root of
SqrtOf(x) == [nan |-> x.nan, square |-> x]

\* ------------------------------------------------------- numeric sequences
\* series.dropna() / nonnan(array): the non-null cells, as integers, in order
RECURSIVE DropNa(_)
DropNa(data) ==
    IF data = <<>> THEN <<>>
    ELSE IF Head(data) = Null THEN DropNa(Tail(data))
    ELSE <<Head(data)[1]>> \o DropNa(Tail(data))

RECURSIVE SumOf(_)
SumOf(xs) == IF xs = <<>> THEN 0 ELSE Head(xs) + SumOf(Tail(xs))

RECURSIVE SortAsc(_)
SortAsc(xs) ==
    IF xs = <<>> THEN <<>>
    ELSE LET k == CHOOSE i \in DOMAIN xs :
                    /\ \A j \in DOMAIN xs : xs[i] <= xs[j]
                    /\ \A j \in 1..(i - 1) : xs[j] # xs[i]
             rest == [j \in 1..(Len(xs) - 1) |-> IF j < k THEN xs[j] ELSE xs[j + 1]]
         IN <<xs[k]>> \o SortAsc(rest)

\* the linearly interpolated quantile of level permille / 1000 of a non-empty
\* sequence of numbers (numpy.quantile and Series.quantile, method "linear")
QuantileOf(xs, permille) ==
    LET s == SortAsc(xs)
        pos == (Len(s) - 1) * permille
        lo == pos \div 1000
        hi == IF lo + 2 <= Len(s) THEN lo + 2 ELSE Len(s)
    IN RatAdd(Float(s[lo + 1]), RatMul(Rat(pos - 1000 * lo, 1000), Float(s[hi] - s[lo + 1])))

\* the sum of (x - mean)^k over xs, times Len(xs)^k
RECURSIVE ScaledMoment(_, _, _, _)
ScaledMoment(xs, k, n, total) ==
    IF xs = <<>> THEN 0
    ELSE LET d == n * Head(xs) - total
         IN (IF k = 2 THEN d * d ELSE IF k = 3 THEN d * d * d ELSE d * d * d * d)
            + ScaledMoment(Tail(xs), k, n, total)

\* the k-th central moment of xs
Moment(xs, k) ==
    LET n == Len(xs)
        nk == IF k = 2 THEN n * n ELSE IF k = 3 THEN n * n * n ELSE n * n * n * n
    IN Rat(ScaledMoment(xs, k, n, SumOf(xs)), n * nk)

\* the variance with ddof delta degrees of freedom; NaN when Len(xs) <= ddof
Variance(xs, ddof) ==
    IF Len(xs) - ddof <= 0 THEN NaN
    ELSE Rat(ScaledMoment(xs, 2, Len(xs), SumOf(xs)), Len(xs) * Len(xs) * (Len(xs) - ddof))

\* scipy.stats.skew of numbers without NaN: m3 / m2^1.5, NaN for no data and
\* for constant data; kept as its two moments
Skew(xs) ==
    IF xs = <<>> THEN [nan |-> TRUE, m2 |-> NaN, m3 |-> NaN]
    ELSE IF Moment(xs, 2).num = 0 THEN [nan |-> TRUE, m2 |-> NaN, m3 |-> NaN]
    ELSE [nan |-> FALSE, m2 |-> Moment(xs, 2), m3 |-> Moment(xs, 3)]

\* scipy.stats.kurtosis (Fisher) of numbers without NaN: m4 / m2^2 - 3
Kurtosis(xs) ==
    IF xs = <<>> THEN NaN
    ELSE IF Moment(xs, 2).num = 0 THEN NaN
    ELSE LET m2 == Moment(xs, 2)
             m4 == Moment(xs, 4)
         IN RatSub(Rat(m4.num * m2.den * m2.den, m4.den * m2.num * m2.num), Float(3))

\* numpy.median / Series.median of a non-empty sequence of numbers
MedianOf(xs) == QuantileOf(xs, 500)

\* -------------------------------------------------------------- statistics
\* the sequence of quantile levels used by both statistics functions, per mille
QLevels == <<1, 10, 50, 100, 250, 750, 900, 950, 990, 999>>

\* flamme.utils.stats.quantile: data is a sequence of cells, q a sequence of
\* levels per mille
quantile(data, q) ==
    IF data = <<>> THEN [i \in DOMAIN q |-> NaN]
    ELSE IF \E i \in DOMAIN data : data[i] = Null THEN [i \in DOMAIN q |-> NaN]
    ELSE [i \in DOMAIN q |-> QuantileOf(DropNa(data), q[i])]

\* flamme.utils.stats.compute_statistics_continuous
compute_statistics_continuous(data) ==
    LET n == Len(data)
        xs == DropNa(data)
        clean == n > 0 /\ Len(xs) = n
        quantiles == quantile(data, QLevels)
    IN [mean |-> IF clean THEN Rat(SumOf(xs), n) ELSE NaN,
        std |-> IF clean THEN SqrtOf(Variance(xs, 0)) ELSE SqrtOf(NaN),
        skewness |-> IF clean THEN Skew(xs) ELSE Skew(<<>>),
        kurtosis |-> IF clean THEN Kurtosis(xs) ELSE NaN,
        min |-> IF n > 0 THEN (IF clean THEN Float(SortAsc(xs)[1]) ELSE NaN) ELSE NaN,
        q001 |-> quantiles[1], q01 |-> quantiles[2], q05 |-> quantiles[3],
        q10 |-> quantiles[4], q25 |-> quantiles[5],
        median |-> IF n > 0 THEN (IF clean THEN MedianOf(xs) ELSE NaN) ELSE NaN,
        q75 |-> quantiles[6], q90 |-> quantiles[7], q95 |-> quantiles[8],
        q99 |-> quantiles[9], q999 |-> quantiles[10],
        max |-> IF n > 0 THEN (IF clean THEN Float(SortAsc(xs)[n]) ELSE NaN) ELSE NaN,
        gt0 |-> Len(SelectSeq(xs, LAMBDA x : x > 0)),
        lt0 |-> Len(SelectSeq(xs, LAMBDA x : x < 0)),
        eq0 |-> Len(SelectSeq(xs, LAMBDA x : x = 0))]

\* compute_statistics whose pandas aggregation does not drop the nulls first
compute_statistics_KeepNa(data) ==
    LET c == compute_statistics_continuous(data)
    IN [count |-> Len(data), num_nulls |-> IsnaSum(data),
        nunique |-> Cardinality(Range(data)),
        mean |-> c.mean, std |-> c.std, skewness |-> c.skewness, kurtosis |-> c.kurtosis,
        min |-> c.min, q001 |-> c.q001, q01 |-> c.q01, q05 |-> c.q05, q10 |-> c.q10,
        q25 |-> c.q25, median |-> c.median, q75 |-> c.q75, q90 |-> c.q90, q95 |-> c.q95,
        q99 |-> c.q99, q999 |-> c.q999, max |-> c.max,
        num_non_nulls |-> Len(data) - IsnaSum(data)]

\* the bundle compute_statistics starts from, with 0.0 in place of NaN
compute_statistics_defaults_Zero(data) ==
    [count |-> Len(data), num_nulls |-> IsnaSum(data),
     nunique |-> Cardinality(Range(data)),
     mean |-> Float(0), std |-> SqrtOf(Float(0)),
     skewness |-> [nan |-> FALSE, m2 |-> Float(1), m3 |-> Float(0)],
     kurtosis |-> Float(0), min |-> Float(0), q001 |-> Float(0), q01 |-> Float(0),
     q05 |-> Float(0), q10 |-> Float(0), q25 |-> Float(0), median |-> Float(0),
     q75 |-> Float(0), q90 |-> Float(0), q95 |-> Float(0), q99 |-> Float(0),
     q999 |-> Float(0), max |-> Float(0),
     num_non_nulls |-> Len(data) - IsnaSum(data)]

\* the bundle compute_statistics starts from: the counts, and NaN for every
\* other statistic
compute_statistics_defaults(data) ==
    [count |-> Len(data), num_nulls |-> IsnaSum(data),
     nunique |-> Cardinality(Range(data)),
     mean |-> NaN, std |-> SqrtOf(NaN), skewness |-> Skew(<<>>), kurtosis |-> NaN,
     min |-> NaN, q001 |-> NaN, q01 |-> NaN, q05 |-> NaN, q10 |-> NaN, q25 |-> NaN,
     median |-> NaN, q75 |-> NaN, q90 |-> NaN, q95 |-> NaN, q99 |-> NaN, q999 |-> NaN,
     max |-> NaN,
     num_non_nulls |-> Len(data) - IsnaSum(data)]

\* flamme.section.utils.compute_statistics
compute_statistics(data) ==
    LET stats == compute_statistics_defaults(data)
        xs == DropNa(data)
        q(i) == QuantileOf(xs, QLevels[i])
        agg == [stats EXCEPT
                  !.mean = Rat(SumOf(xs), Len(xs)),
                  !.median = MedianOf(xs),
                  !.min = Float(SortAsc(xs)[1]),
                  !.max = Float(SortAsc(xs)[Len(xs)]),
                  !.std = SqrtOf(Variance(xs, 1)),
                  !.q001 = q(1), !.q01 = q(2), !.q05 = q(3), !.q10 = q(4), !.q25 = q(5),
                  !.q75 = q(6), !.q90 = q(7), !.q95 = q(8), !.q99 = q(9), !.q999 = q(10)]
    IN IF stats.num_non_nulls > 0
       THEN IF stats.nunique > 1
            THEN [agg EXCEPT !.skewness = Skew(xs), !.kurtosis = Kurtosis(xs)]
            ELSE agg
       ELSE stats

\* ------------------------------------------------- statistics (SpecStats)
MaxLen == 3
MaxValue == 3

NumericCells == {Null} \cup {<<v>> : v \in -1..MaxValue}

InitStats ==
    /\ df = SampleFrame
    /\ op = NoOp
    /\ result = Raised("none")
    /\ calls = <<>>
    /\ sel_calls = 0
    /\ analyzers = <<>>
    /\ max_toc_depth = 0
    /\ root = EmptySection
    /\ args \in [data : SeqsUpTo(NumericCells, MaxLen)]

\* compute_statistics(data)
ComputeStatistics ==
    /\ op' = [kind |-> "compute_statistics"]
    /\ result' = compute_statistics(args.data)
    /\ UNCHANGED <<df, calls, sel_calls, analyzers, max_toc_depth, root, args>>

\* compute_statistics_continuous(data)
ComputeStatisticsContinuous ==
    /\ op' = [kind |-> "compute_statistics_continuous"]
    /\ result' = compute_statistics_continuous(args.data)
    /\ UNCHANGED <<df, calls, sel_calls, analyzers, max_toc_depth, root, args>>

\* quantile(data, q)
Quantile ==
    /\ op' = [kind |-> "quantile"]
    /\ result' = quantile(args.data, QLevels)
    /\ UNCHANGED <<df, calls, sel_calls, analyzers, max_toc_depth, root, args>>

NextStats == ComputeStatistics \/ ComputeStatisticsContinuous \/ Quantile

SpecStats == InitStats /\ [][NextStats]_vars

\* the location, spread and quantile statistics of a bundle
FloatKeys ==
    {"mean", "min", "q001", "q01", "q05", "q10", "q25", "median", "q75", "q90", "q95",
     "q99", "q999", "max", "std", "skewness", "kurtosis"}

NoNonNull(data) == \A i \in DOMAIN data : data[i] = Null

\* C15: on an input without non-null values, compute_statistics,
\* compute_statistics_continuous and quantile return NaN for mean, std, min,
\* max, median, every quantile, skewness and kurtosis, and 0 for num_non_nulls
\* and for the three sign counts.
C15_NoNonNullGivesNaNAndZero ==
    NoNonNull(args.data)
    => (/\ op.kind = "compute_statistics"
            => (\A k \in FloatKeys : result[k].nan) /\ result.num_non_nulls = 0
        /\ op.kind = "compute_statistics_continuous"
            => (/\ \A k \in FloatKeys : result[k].nan
                /\ result.gt0 = 0 /\ result.lt0 = 0 /\ result.eq0 = 0)
        /\ op.kind = "quantile"
            => \A i \in DOMAIN result : result[i].nan)

C15_Witness ==
    /\ op.kind = "compute_statistics"
    /\ args.data = <<Null, Null>>
    /\ result.count = 2
    /\ result.num_nulls = 2
    /\ result.nunique = 1

\* the data holds exactly one distinct non-null value (and any number of nulls)
OneDistinctValue(data) == Cardinality(Range(DropNa(data))) = 1

\* C16: for a column with exactly one distinct non-null value repeated n >= 1
\* times, with or without nulls, compute_statistics gives std == 0, NaN for
\* skewness and kurtosis, and min == max == mean == median == that value.
C16_OneDistinctValue ==
    (op.kind = "compute_statistics" /\ OneDistinctValue(args.data))
    => LET v == Float(DropNa(args.data)[1])
       IN /\ ~result.std.nan /\ result.std.square = Float(0)
          /\ result.skewness.nan
          /\ result.kurtosis.nan
          /\ result.min = v /\ result.max = v /\ result.mean = v /\ result.median = v

\* the cells of data that are not null
NonNullCells(data) == SelectSeq(data, LAMBDA c : c # Null)

\* mean, std, median, min and max of the bundle s are those of the numbers xs
IsSummaryOf(s, xs) ==
    LET k == Len(xs)
    IN /\ s.mean = Rat(SumOf(xs), k)
       /\ \E i \in DOMAIN xs : s.min = Float(xs[i])
       /\ \A i \in DOMAIN xs : RatLe(s.min, Float(xs[i]))
       /\ \E i \in DOMAIN xs : s.max = Float(xs[i])
       /\ \A i \in DOMAIN xs : RatLe(Float(xs[i]), s.max)
       /\ 2 * Cardinality({i \in DOMAIN xs : RatLe(Float(xs[i]), s.median)}) >= k
       /\ 2 * Cardinality({i \in DOMAIN xs : RatLe(s.median, Float(xs[i]))}) >= k

AllFiveNaN(s) == s.mean.nan /\ s.std.nan /\ s.median.nan /\ s.min.nan /\ s.max.nan

SameFive(s, t) ==
    /\ s.mean = t.mean
    /\ s.std = t.std
    /\ s.median = t.median
    /\ s.min = t.min
    /\ s.max = t.max

\* C17 as amended: compute_statistics computes mean, std, median, min and max
\* over the non-null values only (nulls in the input do not change them) and
\* gives NaN for all five when num_non_nulls == 0; compute_statistics_continuous
\* does not drop nulls: it gives NaN for all five as soon as its input holds a
\* NaN, and the statistics of all the values otherwise.
C17_FiveStatisticsOverNonNulls ==
    LET xs == DropNa(args.data)
    IN /\ op.kind = "compute_statistics"
          => (/\ SameFive(result, compute_statistics(NonNullCells(args.data)))
              /\ result.num_non_nulls = Len(xs)
              /\ xs = <<>> => AllFiveNaN(result)
              /\ xs # <<>> => IsSummaryOf(result, xs)
              /\ Len(xs) > 1 =>
                    result.std.square =
                        Rat(Len(xs) * SumOf([i \in DOMAIN xs |-> xs[i] * xs[i]])
                                - SumOf(xs) * SumOf(xs),
                            Len(xs) * (Len(xs) - 1)))
       /\ op.kind = "compute_statistics_continuous"
          => (/\ Len(xs) < Len(args.data) => AllFiveNaN(result)
              /\ args.data = <<>> => AllFiveNaN(result)
              /\ (xs # <<>> /\ Len(xs) = Len(args.data)) => IsSummaryOf(result, xs))

C17_Witness ==
    /\ op.kind = "compute_statistics"
    /\ args.data = <<Null, <<2>>, <<-1>>>>
    /\ result.mean = Rat(1, 2)
    /\ result.median = Rat(1, 2)
    /\ result.min = Float(-1)
    /\ result.max = Float(2)
    /\ result.std.square = Rat(9, 2)

\* C17 as stated, for both statistics functions: nulls in the input do not
\* change mean, std, median, min and max, which are NaN without non-null values
C17_NullsDoNotChangeFive ==
    op.kind \in {"compute_statistics", "compute_statistics_continuous"}
    => LET clean == IF op.kind = "compute_statistics"
                    THEN compute_statistics(NonNullCells(args.data))
                    ELSE compute_statistics_continuous(NonNullCells(args.data))
       IN /\ SameFive(result, clean)
          /\ DropNa(args.data) = <<>> => AllFiveNaN(result)

\* --------------------------------------------------- y-axis scale (SpecScale)
\* an array given up to the order of its elements: mult[v] is the number of
\* occurrences of the number v, nans the number of NaN
ArrayValues(array) == {v \in DOMAIN array.mult : array.mult[v] > 0}

\* flamme.utils.array.nonnan
nonnan(array) == [array EXCEPT !.nans = 0]

SetMin(S) == CHOOSE x \in S : \A y \in S : x <= y
SetMax(S) == CHOOSE x \in S : \A y \in S : y <= x

\* the index (from 0) of the bin of np.histogram(array, bins=nbins) that the
\* value v of the array falls in: nbins bins of equal width over [min, max],
\* the last one closed, and over [min - 0.5, max + 0.5] when min == max
BinOf(array, nbins, v) ==
    LET lo == SetMin(ArrayValues(array))
        hi == SetMax(ArrayValues(array))
    IN IF lo = hi THEN nbins \div 2
       ELSE IF v = hi THEN nbins - 1
       ELSE ((v - lo) * nbins) \div (hi - lo)

RECURSIVE SumOver(_, _)
SumOver(f, S) ==
    IF S = {} THEN 0
    ELSE LET x == CHOOSE y \in S : TRUE IN f[x] + SumOver(f, S \ {x})

\* np.histogram(array, bins=nbins)[0]
Histogram(array, nbins) ==
    [b \in 1..nbins |->
        SumOver(array.mult, {v \in ArrayValues(array) : BinOf(array, nbins, v) = b - 1})]

\* auto_yscale_continuous with <= in place of < in the ratio test
auto_yscale_continuous_RatioInclusive(array, nbins) ==
    LET bins == IF nbins = Null THEN 100 ELSE nbins[1]
        clean == nonnan(array)
        counts == Histogram(clean, bins)
        nonzero_count == SelectSeq(counts, LAMBDA c : c > 0)
    IN IF \/ Len(nonzero_count) <= 2
          \/ SetMax(Range(nonzero_count)) <= 50 * Max2(SetMin(Range(nonzero_count)), 1)
       THEN "linear"
       ELSE IF SetMin(ArrayValues(clean)) <= 0 THEN "symlog"
       ELSE "log"

\* auto_yscale_continuous; nbins is Null (None) or <<n>>; the counts are
\* integers, so max / max(min, 1) < 50 is max < 50 * max(min, 1)
auto_yscale_continuous(array, nbins) ==
    LET bins == IF nbins = Null THEN 100 ELSE nbins[1]
        clean == nonnan(array)
        counts == Histogram(clean, bins)
        nonzero_count == SelectSeq(counts, LAMBDA c : c > 0)
    IN IF \/ Len(nonzero_count) <= 2
          \/ SetMax(Range(nonzero_count)) < 50 * Max2(SetMin(Range(nonzero_count)), 1)
       THEN "linear"
       ELSE IF SetMin(ArrayValues(clean)) <= 0 THEN "symlog"
       ELSE "log"

\* numbers of occurrences on both sides of the ratio 50
Multiplicities == {0, 1, 50, 51}

ScaleArrays == [mult : [0..MaxValue -> Multiplicities], nans : {0, 1}]

InitScale ==
    /\ df = SampleFrame
    /\ op = NoOp
    /\ result = Raised("none")
    /\ calls = <<>>
    /\ sel_calls = 0
    /\ analyzers = <<>>
    /\ max_toc_depth = 0
    /\ root = EmptySection
    /\ args \in [array : ScaleArrays, nbins : {Null, <<2>>, <<3>>}]

\* auto_yscale_continuous(array, nbins)
AutoYscaleContinuous ==
    /\ op' = [kind |-> "auto_yscale_continuous"]
    /\ result' = auto_yscale_continuous(args.array, args.nbins)
    /\ UNCHANGED <<df, calls, sel_calls, analyzers, max_toc_depth, root, args>>

NextScale == AutoYscaleContinuous

SpecScale == InitScale /\ [][NextScale]_vars

\* the non-zero bucket counts of the histogram of the non-NaN data
NonZeroBuckets ==
    LET bins == IF args.nbins = Null THEN 100 ELSE args.nbins[1]
        values == ArrayValues(args.array)
    IN {SumOver(args.array.mult, {v \in values : BinOf(args.array, bins, v) = b}) :
           b \in {BinOf(args.array, bins, v) : v \in values}}

\* the number of buckets of that histogram that are not empty
NumNonZeroBuckets ==
    Cardinality({BinOf(args.array, IF args.nbins = Null THEN 100 ELSE args.nbins[1], v) :
                    v \in ArrayValues(args.array)})

\* C14: with nz the non-zero bucket counts of the histogram of the non-NaN
\* data, auto_yscale_continuous returns "linear" if len(nz) <= 2 or
\* max(nz) / max(min(nz), 1) < 50 (a ratio of exactly 50 is not linear), and
\* otherwise "symlog" if the minimum of the data is <= 0 and "log" if it is > 0.
C14_AutoYscale ==
    op.kind = "auto_yscale_continuous"
    => LET nz == NonZeroBuckets
           linear == \/ NumNonZeroBuckets <= 2
                     \/ SetMax(nz) < 50 * Max2(SetMin(nz), 1)
       IN /\ linear => result = "linear"
          /\ (~linear /\ SetMin(ArrayValues(args.array)) <= 0) => result = "symlog"
          /\ (~linear /\ SetMin(ArrayValues(args.array)) > 0) => result = "log"

\* three buckets holding 50, 1 and 1 values: a ratio of exactly 50, with a
\* NaN in the data and a minimum of 1
C14_Witness ==
    /\ op.kind = "auto_yscale_continuous"
    /\ args.nbins = <<3>>
    /\ args.array.nans = 1
    /\ ArrayValues(args.array) = {1, 2, 3}
    /\ args.array.mult[1] = 50
    /\ args.array.mult[2] = 1
    /\ args.array.mult[3] = 1
    /\ result = "log"

\* ------------------------------------------- frequency tables (SpecCounts)
\* tables with the single column "col" of up to MaxLen numeric cells
CountFrames ==
    {[nrows |-> Len(vs), data |-> <<[name |-> "col", values |-> vs]>>] :
        vs \in SeqsUpTo(NumericCells, MaxLen)}

\* the analyzers that build a frequency table of the column
CountAnalyzers ==
    [kind : {"ColumnDiscrete"}, column : {"col"}, dropna : BOOLEAN]
    \cup [kind : {"MostFrequentValues"}, column : {"col"}, dropna : BOOLEAN, top : {0, 1, 2, 100}]

InitCounts ==
    /\ df \in CountFrames
    /\ op = NoOp
    /\ result = Raised("none")
    /\ calls = <<>>
    /\ sel_calls = 0
    /\ analyzers = <<>>
    /\ max_toc_depth = 0
    /\ root = EmptySection
    /\ args \in CountAnalyzers

\* analyzer.analyze(df); the caller keeps the section
CountsAnalyze ==
    /\ op.kind = "none"
    /\ op' = AnalyzeCall(args, df)
    /\ result' = Analyze(args, df)
    /\ root' = Analyze(args, df).section
    /\ UNCHANGED <<df, calls, sel_calls, analyzers, max_toc_depth, args>>

\* section.get_statistics() on the section analyze returned
CountsGetStatistics ==
    /\ op.kind = "analyze"
    /\ op' = [kind |-> "get_statistics"]
    /\ result' = Returned(GetStatistics(root))
    /\ UNCHANGED <<df, calls, sel_calls, analyzers, max_toc_depth, root, args>>

NextCounts ==
    \/ CountsAnalyze
    \/ CountsGetStatistics

SpecCounts == InitCounts /\ [][NextCounts]_vars

RECURSIVE SumOfCounts(_)
SumOfCounts(table) ==
    IF table = <<>> THEN 0 ELSE table[1].count + SumOfCounts(Tail(table))

\* the most-common table is not cut short: ColumnDiscreteSection lists every
\* value, MostFrequentValuesSection the top ones
ListsAllDistinctValues ==
    \/ args.kind = "ColumnDiscrete"
    \/ args.top >= Cardinality(Range(Column(df, "col")))

\* C18: the sum of the counts in the most-common table, taken over all
\* distinct values of the column, equals num_non_nulls when nulls are
\* dropped and count (the number of rows) when nulls are not dropped.
C18_FrequencyTableConservation ==
    (op.kind = "get_statistics" /\ ListsAllDistinctValues)
    => LET stats == compute_statistics(Column(df, "col"))
           sum == SumOfCounts(result.section.most_common)
       IN /\ args.dropna => sum = stats.num_non_nulls
          /\ ~args.dropna => sum = stats.count
          /\ args.kind = "ColumnDiscrete" => result.section.total = sum

\* the column 1, NaN, 1 counted with its nulls: two buckets, three rows
C18_Witness ==
    /\ op.kind = "get_statistics"
    /\ args.kind = "MostFrequentValues"
    /\ ~args.dropna
    /\ Column(df, "col") = <<<<1>>, Null, <<1>>>>
    /\ ListsAllDistinctValues
    /\ result.section.most_common =
          <<[value |-> <<1>>, count |-> 2], [value |-> Null, count |-> 1]>>

\* ------------------------------------------------ null counts (SpecNull)
\* tables of up to MaxRows + 1 rows, so that a column can hold nulls and
\* values together
NullFrames == UNION {FramesOf(cols, n) : cols \in ColumnLists, n \in 0..(MaxRows + 1)}

InitNull ==
    /\ df \in NullFrames
    /\ op = NoOp
    /\ result = Raised("none")
    /\ calls = <<>>
    /\ sel_calls = 0
    /\ analyzers = <<>>
    /\ max_toc_depth = 0
    /\ root = EmptySection
    /\ args = <<>>

\* NullValueAnalyzer().analyze(df); the caller keeps the section
NullAnalyze ==
    /\ op.kind = "none"
    /\ op' = AnalyzeCall(NullValueAnalyzer, df)
    /\ result' = Analyze(NullValueAnalyzer, df)
    /\ root' = Analyze(NullValueAnalyzer, df).section
    /\ UNCHANGED <<df, calls, sel_calls, analyzers, max_toc_depth, args>>

\* section.get_statistics() on the section analyze returned
NullGetStatistics ==
    /\ op.kind = "analyze"
    /\ op' = [kind |-> "get_statistics"]
    /\ result' = Returned(GetStatistics(root))
    /\ UNCHANGED <<df, calls, sel_calls, analyzers, max_toc_depth, root, args>>

NextNull ==
    \/ NullAnalyze
    \/ NullGetStatistics

SpecNull == InitNull /\ [][NextNull]_vars

\* the number of null cells of column i of the table
NullCellsOf(frame, i) ==
    Cardinality({j \in DOMAIN frame.data[i].values : frame.data[i].values[j] = Null})

\* C19: the statistics of the section NullValueAnalyzer.analyze returns hold
\* one entry per column of the table: null_count[i] is the number of null
\* cells of column i and total_count[i] the row count of the table, so
\* columns, null_count and total_count have equal length and
\* 0 <= null_count[i] <= total_count[i].
C19_NullCountsPerColumn ==
    op.kind = "get_statistics"
    => LET stats == result.section
       IN /\ result.raised = "none"
          /\ stats.columns = Columns(df)
          /\ Len(stats.null_count) = Len(stats.columns)
          /\ Len(stats.total_count) = Len(stats.columns)
          /\ \A i \in 1..Len(stats.columns) :
                /\ stats.null_count[i] = NullCellsOf(df, i)
                /\ stats.total_count[i] = df.nrows
                /\ 0 <= stats.null_count[i]
                /\ stats.null_count[i] <= stats.total_count[i]

\* a table of two rows and three columns holding no, one and two nulls
C19_Witness ==
    /\ op.kind = "get_statistics"
    /\ df.nrows = 2
    /\ result.section.columns = <<"x", "col", "dt">>
    /\ result.section.null_count = <<0, 1, 2>>
    /\ result.section.total_count = <<2, 2, 2>>

\* ------------------------------- statistics of the sections (SpecBundle)
\* dicts over the column labels "col" and "x", in insertion order
DictsOver(values) ==
    UNION {{[i \in DOMAIN keys |-> [key |-> keys[i], value |-> vs[i]]] :
                vs \in SeqsOfLen(values, Len(keys))} :
           keys \in {k \in ColumnLists : Range(k) \subseteq {"col", "x"}}}

\* ColumnTypeSection.__init__ without the comparison of the key sets
ColumnTypeSection___init___NoCheck(dtypes, types) ==
    Returned([kind |-> "ColumnTypeSection", dtypes |-> dtypes, types |-> types])

\* ColumnTypeSection.__init__
ColumnTypeSection___init__(dtypes, types) ==
    IF Range(DictKeys(dtypes)) # Range(DictKeys(types)) THEN Raised("RuntimeError")
    ELSE Returned([kind |-> "ColumnTypeSection", dtypes |-> dtypes, types |-> types])

\* ColumnDtypeSection.__init__
ColumnDtypeSection___init__(dtypes) ==
    Returned([kind |-> "ColumnDtypeSection", dtypes |-> dtypes])

\* the analyzers whose sections the caller asks for statistics
BundleAnalyzers ==
    {[kind |-> "TemporalRowCount", dt_column |-> c, period |-> "M"] : c \in {"dt", "x"}}
    \cup {[kind |-> "TableOfContent", analyzer |-> a, max_toc_depth |-> 1] :
             a \in {DuplicatedRowAnalyzer, NullValueAnalyzer,
                    [kind |-> "TemporalRowCount", dt_column |-> "dt", period |-> "M"],
                    [kind |-> "ColumnDiscrete", column |-> "x", dropna |-> FALSE]}}

BundleFrames == UNION {FramesOf(<<"col", "dt">>, n) : n \in 0..MaxRows}

InitBundle ==
    /\ df \in BundleFrames
    /\ op = NoOp
    /\ result = Raised("none")
    /\ calls = <<>>
    /\ sel_calls = 0
    /\ analyzers = <<>>
    /\ max_toc_depth = 0
    /\ root = EmptySection
    /\ args \in [dtypes : DictsOver({"int64", "float64"}),
                 types : DictsOver({{"int"}, {"int", "float"}})]

\* ColumnTypeSection(dtypes=dtypes, types=types)
NewColumnTypeSection ==
    /\ op.kind = "none"
    /\ op' = [kind |-> "__init__", class |-> "ColumnTypeSection"]
    /\ result' = ColumnTypeSection___init__(args.dtypes, args.types)
    /\ root' = IF ColumnTypeSection___init__(args.dtypes, args.types).raised = "none"
               THEN ColumnTypeSection___init__(args.dtypes, args.types).section
               ELSE root
    /\ UNCHANGED <<df, calls, sel_calls, analyzers, max_toc_depth, args>>

\* ColumnDtypeSection(dtypes=dtypes)
NewColumnDtypeSection ==
    /\ op.kind = "none"
    /\ op' = [kind |-> "__init__", class |-> "ColumnDtypeSection"]
    /\ result' = ColumnDtypeSection___init__(args.dtypes)
    /\ root' = ColumnDtypeSection___init__(args.dtypes).section
    /\ UNCHANGED <<df, calls, sel_calls, analyzers, max_toc_depth, args>>

\* analyzer.analyze(df); the caller keeps the section
BundleAnalyze ==
    \E a \in BundleAnalyzers :
        /\ op.kind = "none"
        /\ op' = AnalyzeCall(a, df)
        /\ result' = Analyze(a, df)
        /\ root' = Analyze(a, df).section
        /\ UNCHANGED <<df, calls, sel_calls, analyzers, max_toc_depth, args>>

\* section.get_statistics() on the section just built
BundleGetStatistics ==
    /\ op.kind \in {"__init__", "analyze"}
    /\ result.raised = "none"
    /\ op' = [kind |-> "get_statistics"]
    /\ result' = Returned(GetStatistics(root))
    /\ UNCHANGED <<df, calls, sel_calls, analyzers, max_toc_depth, root, args>>

NextBundle ==
    \/ NewColumnTypeSection
    \/ NewColumnDtypeSection
    \/ BundleAnalyze
    \/ BundleGetStatistics

SpecBundle == InitBundle /\ [][NextBundle]_vars

\* the sections the statement calls sections with no numeric content
NoNumericContent ==
    {"TemporalRowCountSection", "ColumnTypeSection", "ColumnDtypeSection",
     "TableOfContentSection", "EmptySection"}

\* C20: get_statistics() returns {} for an empty section and for a row-count
\* section; a type section returns the mapping from each column to the types
\* of its values and a dtype section the mapping from each column to its
\* dtype, which are {} only for no columns; a table-of-contents section
\* returns the statistics of the section it wraps.
C20_StatisticsOfContentFreeSections ==
    op.kind = "get_statistics"
    => /\ root.kind \in {"EmptySection", "TemporalRowCountSection"} => result.section = <<>>
       /\ root.kind = "ColumnTypeSection"
             => /\ result.section = args.types
                /\ (result.section = <<>>) = (args.types = <<>>)
       /\ root.kind = "ColumnDtypeSection" => result.section = args.dtypes
       /\ root.kind = "TableOfContentSection"
             => /\ result.section = GetStatistics(root.section)
                /\ root.section.kind = "DuplicatedRowSection"
                      => result.section.num_rows = df.nrows

\* the statistics of a type section over two columns
C20_Witness ==
    /\ op.kind = "get_statistics"
    /\ root.kind = "ColumnTypeSection"
    /\ result.section = <<[key |-> "col", value |-> {"int", "float"}],
                          [key |-> "x", value |-> {"int"}]>>

\* C20 as stated: every row-count, type, table-of-contents and empty section
\* returns the empty bundle {} from get_statistics().
C20_EmptyBundle ==
    (op.kind = "get_statistics" /\ root.kind \in NoNumericContent)
    => result.section = <<>>

\* the distinct values of the column that the analyzer counts
CountedValues ==
    Range(Column(df, "col")) \ (IF args.dropna THEN {Null} ELSE {})

\* C21: MostFrequentValuesSection.get_statistics()["most_common"] is the
\* first top entries of the counter's (value, count) pairs ordered by
\* non-increasing count: it has min(top, number of distinct values) entries,
\* each a distinct value with its count, and no omitted value has a count
\* greater than a listed one.
C21_MostCommonIsTopOfCounter ==
    (op.kind = "get_statistics" /\ args.kind = "MostFrequentValues" /\ args.top >= 0)
    => LET table == result.section.most_common
       IN /\ Len(table) = Min2(args.top, Cardinality(CountedValues))
          /\ \A i \in DOMAIN table :
                /\ table[i].value \in CountedValues
                /\ table[i].count = CountOf(Column(df, "col"), table[i].value)
                /\ \A j \in DOMAIN table : j > i =>
                      /\ table[j].value # table[i].value
                      /\ table[j].count <= table[i].count
                /\ \A v \in CountedValues \ {table[k].value : k \in DOMAIN table} :
                      CountOf(Column(df, "col"), v) <= table[i].count

\* the column 2, 1, 1 with top = 1: the value 1 is listed, the value 2, met
\* first, is left out
C21_Witness ==
    /\ op.kind = "get_statistics"
    /\ args.kind = "MostFrequentValues"
    /\ args.top = 1
    /\ Column(df, "col") = <<<<2>>, <<1>>, <<1>>>>
    /\ result.section.most_common = <<[value |-> <<1>>, count |-> 2]>>

\* set(d.keys())
KeySet(d) == {d[i].key : i \in DOMAIN d}

\* C22: constructing a ColumnTypeSection whose dtypes and types mappings have
\* different key sets raises RuntimeError in the constructor and builds no
\* section, so every ColumnTypeSection that exists has the same key set in
\* both mappings.
C22_ColumnTypeSectionKeySets ==
    /\ (op.kind = "__init__" /\ op.class = "ColumnTypeSection")
          => IF KeySet(args.dtypes) # KeySet(args.types)
             THEN result = Raised("RuntimeError") /\ root = EmptySection
             ELSE /\ result.raised = "none"
                  /\ result.section.dtypes = args.dtypes
                  /\ result.section.types = args.types
                  /\ root = result.section
    /\ root.kind = "ColumnTypeSection" => KeySet(root.dtypes) = KeySet(root.types)

\* dtypes for "col" only and types for "col" and "x": the constructor raises
C22_Witness ==
    /\ op.kind = "__init__"
    /\ op.class = "ColumnTypeSection"
    /\ KeySet(args.dtypes) = {"col"}
    /\ KeySet(args.types) = {"col", "x"}
    /\ result = Raised("RuntimeError")

\* ------------------------------------------------- sorted_nan (SpecSort)
\* the sort keys are numbers <<v>> or the LowNaN instance, written Null

\* LowNaN.__lt__ that answers False
LowNaN___lt___False(other) == FALSE

\* LowNaN.__lt__(other) for a number other
LowNaN___lt__(other) == TRUE

\* LowNaN.__gt__(other) for a number other
LowNaN___gt__(other) == FALSE

\* a < b on two sort keys, as list.sort evaluates it: LowNaN.__lt__ when a is
\* the LowNaN, the reflected LowNaN.__gt__ when only b is
KeyLt(a, b) ==
    IF a = Null THEN LowNaN___lt__(b)
    ELSE IF b = Null THEN LowNaN___gt__(a)
    ELSE a[1] < b[1]

\* one step of the insertion sort of list.sort: x goes before the first
\* element that it is less than
InsertSorted(s, x) ==
    LET before == {i \in DOMAIN s : KeyLt(x, s[i])}
        pos == IF before = {} THEN Len(s) + 1
               ELSE CHOOSE i \in before : \A j \in before : i <= j
    IN SubSeq(s, 1, pos - 1) \o <<x>> \o SubSeq(s, pos, Len(s))

RECURSIVE ListSort(_)
ListSort(s) ==
    IF s = <<>> THEN <<>>
    ELSE InsertSorted(ListSort(SubSeq(s, 1, Len(s) - 1)), s[Len(s)])

\* sorted(data, key=..., reverse=reverse): with reverse the list is reversed,
\* sorted and reversed again
sorted_nan(data, reverse) ==
    IF reverse THEN Reverse(ListSort(Reverse(data))) ELSE ListSort(data)

InitSort ==
    /\ df = SampleFrame
    /\ op = NoOp
    /\ result = <<>>
    /\ calls = <<>>
    /\ sel_calls = 0
    /\ analyzers = <<>>
    /\ max_toc_depth = 0
    /\ root = EmptySection
    /\ args \in [data : SeqsUpTo(NumericCells, MaxLen), reverse : BOOLEAN]

\* sorted_nan(data, reverse=reverse)
SortedNan ==
    /\ op' = [kind |-> "sorted_nan"]
    /\ result' = sorted_nan(args.data, args.reverse)
    /\ UNCHANGED <<df, calls, sel_calls, analyzers, max_toc_depth, root, args>>

NextSort == SortedNan

SpecSort == InitSort /\ [][NextSort]_vars

\* C23: sorted_nan(data) is a permutation of data in which every NaN comes
\* before every number and the numbers ascend; with reverse=True the numbers
\* descend and every NaN comes last.
C23_SortedNan ==
    op.kind = "sorted_nan"
    => /\ Len(result) = Len(args.data)
       /\ \A v \in NumericCells : CountOf(result, v) = CountOf(args.data, v)
       /\ ~args.reverse =>
             \A i, j \in DOMAIN result : i < j =>
                \/ result[i] = Null
                \/ result[j] # Null /\ result[i][1] <= result[j][1]
       /\ args.reverse =>
             \A i, j \in DOMAIN result : i < j =>
                \/ result[j] = Null
                \/ result[i] # Null /\ result[i][1] >= result[j][1]

\* 2, NaN, 1 sorts to NaN, 1, 2
C23_Witness ==
    /\ op.kind = "sorted_nan"
    /\ ~args.reverse
    /\ args.data = <<<<2>>, Null, <<1>>>>
    /\ result = <<Null, <<1>>, <<2>>>>

\* 1, NaN, 2 with reverse=True sorts to 2, 1, NaN
C23_WitnessReverse ==
    /\ op.kind = "sorted_nan"
    /\ args.reverse
    /\ args.data = <<<<1>>, Null, <<2>>>>
    /\ result = <<<<2>>, <<1>>, Null>>

\* ------------------------------ null-column transformer (SpecNullColumn)
\* compute_null_per_col: for each column its label, its number of nulls and
\* the number of rows; null_pct is null / total, NaN for a table without rows
compute_null_per_col(frame) ==
    [i \in 1..NumColumns(frame) |->
        [column |-> frame.data[i].name,
         null |-> IsnaSum(frame.data[i].values),
         total |-> NumRows(frame)]]

\* null_pct < threshold for a row of compute_null_per_col and a threshold
\* num / den with den > 0; a NaN null_pct is less than nothing
NullPctBelow(row, threshold) ==
    /\ row.total > 0
    /\ row.null * threshold.den < threshold.num * row.total

\* NullColumnDataFrameTransformer.transform that also keeps the columns whose
\* proportion of nulls equals the threshold
NullColumnDataFrameTransformer_transform_KeepEqual(self, frame) ==
    IF NumRows(frame) = 0 THEN frame
    ELSE LET df_null == compute_null_per_col(frame)
             kept == SelectSeq(df_null, LAMBDA row :
                        row.null * self.threshold.den <= self.threshold.num * row.total)
         IN Select(frame, [i \in DOMAIN kept |-> kept[i].column])

\* NullColumnDataFrameTransformer.transform
NullColumnDataFrameTransformer_transform(self, frame) ==
    IF NumRows(frame) = 0 THEN frame
    ELSE LET df_null == compute_null_per_col(frame)
             kept == SelectSeq(df_null, LAMBDA row : NullPctBelow(row, self.threshold))
         IN Select(frame, [i \in DOMAIN kept |-> kept[i].column])

\* the thresholds 0, 1/2, 1 and 2
Thresholds == {[num |-> 0, den |-> 1], [num |-> 1, den |-> 2],
               [num |-> 1, den |-> 1], [num |-> 2, den |-> 1]}

InitNullColumn ==
    /\ df \in NullFrames
    /\ op = NoOp
    /\ result = Raised("none")
    /\ calls = <<>>
    /\ sel_calls = 0
    /\ analyzers = <<>>
    /\ max_toc_depth = 0
    /\ root = EmptySection
    /\ args \in [kind : {"NullColumnDataFrameTransformer"}, threshold : Thresholds]

\* transformer.transform(df)
NullColumnTransform ==
    /\ op' = [kind |-> "transform"]
    /\ result' = [raised |-> "none",
                  frame |-> NullColumnDataFrameTransformer_transform(args, df)]
    /\ UNCHANGED <<df, calls, sel_calls, analyzers, max_toc_depth, root, args>>

NextNullColumn == NullColumnTransform

SpecNullColumn == InitNullColumn /\ [][NextNullColumn]_vars

\* the labels of the columns of df whose proportion of null cells is at
\* least the threshold; a table without rows has no such proportion
TooManyNulls ==
    {df.data[i].name : i \in {k \in DOMAIN df.data :
        /\ df.nrows > 0
        /\ NullCellsOf(df, k) * args.threshold.den >= args.threshold.num * df.nrows}}

\* C24: transform removes exactly the columns whose proportion of nulls is
\* greater than or equal to the threshold and keeps every other column in
\* its original order with its values unchanged; with threshold 1 only the
\* columns made entirely of nulls are removed.
C24_NullColumnsRemoved ==
    op.kind = "transform"
    => LET out == result.frame
       IN /\ Columns(out) = SelectSeq(Columns(df), LAMBDA c : c \notin TooManyNulls)
          /\ out.nrows = df.nrows
          /\ \A i \in DOMAIN out.data : out.data[i].values = Column(df, out.data[i].name)
          /\ args.threshold = [num |-> 1, den |-> 1] =>
                \A i \in DOMAIN df.data :
                   (df.data[i].name \notin Range(Columns(out)))
                   = (df.nrows > 0 /\ \A j \in 1..df.nrows : df.data[i].values[j] = Null)

\* threshold 1/2 on a table of two rows: the column with one null and the
\* column with two nulls go, the column without nulls stays
C24_Witness ==
    /\ op.kind = "transform"
    /\ args.threshold = [num |-> 1, den |-> 2]
    /\ Columns(df) = <<"x", "col", "dt">>
    /\ df.nrows = 2
    /\ IsnaSum(Column(df, "x")) = 1
    /\ IsnaSum(Column(df, "col")) = 0
    /\ IsnaSum(Column(df, "dt")) = 2
    /\ Columns(result.frame) = <<"col">>

\* -------------------------------- column transformer (SpecColumn)
\* str.strip() on a string given as the sequence of its characters
RECURSIVE LStrip(_)
LStrip(s) == IF s # <<>> /\ Head(s) = " " THEN LStrip(Tail(s)) ELSE s

Strip(s) == Reverse(LStrip(Reverse(LStrip(s))))

StripStringSeriesTransformer == [kind |-> "StripString"]
SequentialSeriesTransformer(transformers) ==
    [kind |-> "Sequential", transformers |-> transformers]

\* BaseSeriesTransformer.transform on the values of a series; a string cell
\* is <<s>> with s the sequence of its characters
RECURSIVE SeriesTransform(_, _)
SeriesTransform(self, values) ==
    IF self.kind = "StripString"
    THEN [i \in DOMAIN values |->
            IF values[i] = Null THEN Null ELSE <<Strip(values[i][1])>>]
    ELSE IF self.transformers = <<>> THEN values
    ELSE SeriesTransform(SequentialSeriesTransformer(Tail(self.transformers)),
                         SeriesTransform(Head(self.transformers), values))

\* df[col] = values on a column that is in the frame
SetColumn(frame, col, values) ==
    [frame EXCEPT !.data = [i \in DOMAIN frame.data |->
        IF frame.data[i].name = col THEN [name |-> col, values |-> values]
        ELSE frame.data[i]]]

\* ColumnDataFrameTransformer.transform: the items are visited in insertion
\* order and each column is assigned in the caller's frame; df is the
\* caller's frame when the call ends
ColumnDataFrameTransformer_transform(self, frame) ==
    LET RECURSIVE Loop(_, _)
        Loop(items, f) ==
            IF items = <<>> THEN [df |-> f, result |-> [raised |-> "none", frame |-> f]]
            ELSE IF ~HasColumn(f, Head(items).key)
            THEN IF self.ignore_missing THEN Loop(Tail(items), f)
                 ELSE [df |-> f, result |-> Raised("RuntimeError")]
            ELSE Loop(Tail(items),
                      SetColumn(f, Head(items).key,
                                SeriesTransform(Head(items).value, Column(f, Head(items).key))))
    IN Loop(self.columns, frame)

\* ColumnDataFrameTransformer.add_transformer that replaces whatever
\* replace_ok is
ColumnDataFrameTransformer_add_transformer_Replace(self, column, transformer, replace_ok) ==
    [self |-> [self EXCEPT !.columns = DictSet(self.columns, column, transformer)],
     result |-> [raised |-> "none"]]

\* ColumnDataFrameTransformer.add_transformer
ColumnDataFrameTransformer_add_transformer(self, column, transformer, replace_ok) ==
    IF DictHas(self.columns, column) /\ ~replace_ok
    THEN [self |-> self, result |-> Raised("KeyError")]
    ELSE [self |-> [self EXCEPT !.columns = DictSet(self.columns, column, transformer)],
          result |-> [raised |-> "none"]]

SeriesTransformers ==
    {StripStringSeriesTransformer, SequentialSeriesTransformer(<<>>)}

StringCells == {Null, <<<<"a">>>>, <<<<" ", "a">>>>}

\* tables with the columns "col", or "col" and "x", of string cells
StringFrames ==
    UNION {{[nrows |-> n,
             data |-> [i \in DOMAIN cols |-> [name |-> cols[i], values |-> vs[i]]]] :
                vs \in SeqsOfLen(SeqsOfLen(StringCells, n), Len(cols))} :
           cols \in {<<"col">>, <<"col", "x">>}, n \in 0..MaxRows}

\* ColumnDataFrameTransformer(columns={}, ignore_missing=ignore_missing)
InitColumn ==
    /\ df \in StringFrames
    /\ op = NoOp
    /\ result = Raised("none")
    /\ calls = <<>>
    /\ sel_calls = 0
    /\ analyzers = <<>>
    /\ max_toc_depth = 0
    /\ root \in [kind : {"ColumnDataFrameTransformer"}, columns : {<<>>},
                 ignore_missing : BOOLEAN]
    /\ args = <<>>

\* root.add_transformer(column, transformer, replace_ok=replace_ok)
ColumnAddTransformer ==
    \E column \in {"col", "x"}, transformer \in SeriesTransformers, replace_ok \in BOOLEAN :
        /\ op' = [kind |-> "add_transformer", column |-> column,
                  transformer |-> transformer, replace_ok |-> replace_ok]
        /\ root' = ColumnDataFrameTransformer_add_transformer(
                      root, column, transformer, replace_ok).self
        /\ result' = ColumnDataFrameTransformer_add_transformer(
                      root, column, transformer, replace_ok).result
        /\ UNCHANGED <<df, calls, sel_calls, analyzers, max_toc_depth, args>>

\* root.transform(df) on the caller's frame
ColumnTransform ==
    /\ op' = [kind |-> "transform"]
    /\ df' = ColumnDataFrameTransformer_transform(root, df).df
    /\ result' = ColumnDataFrameTransformer_transform(root, df).result
    /\ UNCHANGED <<calls, sel_calls, analyzers, max_toc_depth, root, args>>

NextColumn ==
    \/ ColumnAddTransformer
    \/ ColumnTransform

SpecColumn == InitColumn /\ [][NextColumn]_vars

\* C25: an add_transformer call for a column that is already registered, with
\* replace_ok=False, raises KeyError and leaves the whole mapping unchanged;
\* any other call sets the transformer of that column to the given one and
\* leaves every other entry unchanged.
C25_AddTransformer ==
    [][op'.kind = "add_transformer"
       => IF DictHas(root.columns, op'.column) /\ ~op'.replace_ok
          THEN result' = Raised("KeyError") /\ root' = root
          ELSE /\ result'.raised = "none"
               /\ DictHas(root'.columns, op'.column)
               /\ DictGet(root'.columns, op'.column) = op'.transformer
               /\ KeySet(root'.columns) = KeySet(root.columns) \cup {op'.column}
               /\ \A k \in KeySet(root.columns) \ {op'.column} :
                     DictGet(root'.columns, k) = DictGet(root.columns, k)
               /\ root'.ignore_missing = root.ignore_missing]_vars

\* with "x" then "col" registered, a second registration of "x" without
\* replace_ok raises KeyError
C25_Witness ==
    /\ op.kind = "add_transformer"
    /\ op.column = "x"
    /\ ~op.replace_ok
    /\ op.transformer = StripStringSeriesTransformer
    /\ result = Raised("KeyError")
    /\ root.columns = <<[key |-> "x", value |-> SequentialSeriesTransformer(<<>>)],
                        [key |-> "col", value |-> StripStringSeriesTransformer]>>

\* C29: if ColumnDataFrameTransformer.transform raises RuntimeError because a
\* registered column is missing from the frame (ignore_missing=False), no
\* column of the caller's frame has been modified by that call.
C29_FrameUnchangedOnMissingColumn ==
    [][(op'.kind = "transform" /\ result' = Raised("RuntimeError")) => df' = df]_vars

\* ------------------------ global temporal null values (SpecTemporal)
\* series.dt.to_period(period): a datetime is the number of its half-month,
\* and the monthly period of the half-months 2m and 2m + 1 is m
to_period(dt, period) == dt[1] \div 2

\* the sequence of the elements of a set of numbers in ascending order
RECURSIVE SortedIndex(_)
SortedIndex(S) ==
    IF S = {} THEN <<>>
    ELSE <<SetMin(S)>> \o SortedIndex(S \ {SetMin(S)})

\* df[columns].isna().astype(float) for one column
IsnaFloat(values) == [j \in DOMAIN values |-> IF values[j] = Null THEN <<1>> ELSE <<0>>]

\* groupby(...)[columns].sum().sum(axis=1) for the rows of one group: the sum
\* of the non-null cells of the columns
GroupSum(columns, rows) ==
    SumOf([i \in DOMAIN columns |->
              SumOf([k \in 1..Len(SortedIndex(rows)) |->
                        IF columns[i][SortedIndex(rows)[k]] = Null THEN 0
                        ELSE columns[i][SortedIndex(rows)[k]][1]])])

\* groupby(...)[columns].count().sum(axis=1) for the rows of one group: the
\* number of non-null cells of the columns
GroupCount(columns, rows) ==
    SumOf([i \in DOMAIN columns |-> Cardinality({j \in rows : columns[i][j] # Null})])

\* prepare_data that counts the cells of the table as it came in
prepare_data_CountRaw(frame, dt_column, period) ==
    LET columns == SelectSeq(Columns(frame), LAMBDA c : c # dt_column)
        dt == Column(frame, dt_column)
        rows == {j \in DOMAIN dt : dt[j] # Null}
        index == SortedIndex({to_period(dt[j], period) : j \in rows})
        group(p) == {j \in rows : to_period(dt[j], period) = p}
        raw == [i \in DOMAIN columns |-> Column(frame, columns[i])]
        isna == [i \in DOMAIN columns |-> IsnaFloat(Column(frame, columns[i]))]
    IN [num_nulls |-> [i \in DOMAIN index |-> GroupSum(isna, group(index[i]))],
        total |-> [i \in DOMAIN index |-> GroupCount(raw, group(index[i]))],
        labels |-> index]

\* null_temp_global.prepare_data: the rows are grouped by the period of their
\* datetime (groupby leaves out the rows without one), the groups come in
\* ascending period order, and the labels are the periods
prepare_data(frame, dt_column, period) ==
    LET columns == SelectSeq(Columns(frame), LAMBDA c : c # dt_column)
        dt == Column(frame, dt_column)
        rows == {j \in DOMAIN dt : dt[j] # Null}
        index == SortedIndex({to_period(dt[j], period) : j \in rows})
        group(p) == {j \in rows : to_period(dt[j], period) = p}
        isna == [i \in DOMAIN columns |-> IsnaFloat(Column(frame, columns[i]))]
    IN [num_nulls |-> [i \in DOMAIN index |-> GroupSum(isna, group(index[i]))],
        total |-> [i \in DOMAIN index |-> GroupCount(isna, group(index[i]))],
        labels |-> index]

\* the datetimes of four half-months, or none
DatetimeCells == {Null} \cup {<<t>> : t \in 0..3}

\* tables of up to MaxRows + 1 rows with the datetime column "dt" and zero,
\* one or two other columns
TemporalFrames ==
    UNION {{[nrows |-> n,
             data |-> [i \in DOMAIN cols |->
                         [name |-> cols[i],
                          values |-> IF cols[i] = "dt" THEN dts ELSE vs[i]]]] :
                vs \in SeqsOfLen(SeqsOfLen(Cells, n), Len(cols)),
                dts \in SeqsOfLen(DatetimeCells, n)} :
           cols \in {<<"dt">>, <<"col", "dt">>, <<"dt", "x", "col">>},
           n \in 0..(MaxRows + 1)}

InitTemporal ==
    /\ df \in TemporalFrames
    /\ op = NoOp
    /\ result = Raised("none")
    /\ calls = <<>>
    /\ sel_calls = 0
    /\ analyzers = <<>>
    /\ max_toc_depth = 0
    /\ root = EmptySection
    /\ args = [dt_column |-> "dt", period |-> "M"]

\* prepare_data(df, dt_column, period)
PrepareData ==
    /\ op' = [kind |-> "prepare_data"]
    /\ result' = prepare_data(df, args.dt_column, args.period)
    /\ UNCHANGED <<df, calls, sel_calls, analyzers, max_toc_depth, root, args>>

NextTemporal == PrepareData

SpecTemporal == InitTemporal /\ [][NextTemporal]_vars

\* the rows of df whose datetime falls in the period p
RowsIn(p) ==
    {j \in 1..df.nrows : Column(df, "dt")[j] # Null /\ Column(df, "dt")[j][1] \div 2 = p}

\* the cells (column, row) of the columns other than "dt" in the rows of the
\* period p
CellsIn(p) == {k \in DOMAIN df.data : df.data[k].name # "dt"} \X RowsIn(p)

\* C26: for a table whose datetime column has no nulls, prepare_data returns
\* three sequences of equal length with one entry per distinct period in
\* ascending period order; for each period, total is the number of rows in
\* the period times the number of non-datetime columns, num_nulls is the
\* number of null cells of those columns in the period, and
\* 0 <= num_nulls <= total.
C26_GlobalTemporalNullCounts ==
    (op.kind = "prepare_data" /\ Null \notin Range(Column(df, "dt")))
    => LET periods == {Column(df, "dt")[j][1] \div 2 : j \in 1..df.nrows}
       IN /\ Len(result.num_nulls) = Cardinality(periods)
          /\ Len(result.total) = Cardinality(periods)
          /\ Len(result.labels) = Cardinality(periods)
          /\ Range(result.labels) = periods
          /\ \A i, j \in DOMAIN result.labels : i < j => result.labels[i] < result.labels[j]
          /\ \A i \in DOMAIN result.labels :
                /\ result.total[i] =
                      Cardinality(RowsIn(result.labels[i])) * (NumColumns(df) - 1)
                /\ result.num_nulls[i] =
                      Cardinality({c \in CellsIn(result.labels[i]) :
                                      df.data[c[1]].values[c[2]] = Null})
                /\ 0 <= result.num_nulls[i]
                /\ result.num_nulls[i] <= result.total[i]

\* two rows in two periods, the later period first in the table, with two
\* nulls in the earlier period and one in the later
C26_Witness ==
    /\ op.kind = "prepare_data"
    /\ Columns(df) = <<"dt", "x", "col">>
    /\ Column(df, "dt") = <<<<3>>, <<0>>>>
    /\ result.labels = <<0, 1>>
    /\ result.num_nulls = <<2, 1>>
    /\ result.total = <<2, 2>>

\* C27: for every leaf section and every tags sequence, the anchor that the
\* section's table-of-contents entry links to (render_html_toc with
\* depth < max_depth) is the id attribute of the heading that the section's
\* render_html_body emits for the same tags.
C27_TocAnchorIsHeadingId ==
    (op.kind = "render_html_toc" /\ IsLeaf(root) /\ args.depth < args.max_depth)
    => /\ Len(result) = 1
       /\ Head(result[1].href) = "#"
       /\ Tail(result[1].href) =
             RenderBody(root, args.number, args.tags, args.depth)[1].id

\* the entry of a leaf section under the tags "A-b" and "S 1"
C27_Witness ==
    /\ op.kind = "render_html_toc"
    /\ IsLeaf(root)
    /\ args.depth < args.max_depth
    /\ args.tags = <<<<"A", "-", "b">>, Section1>>
    /\ Tail(result[1].href) = <<"a", "-", "b", "-">> \o Lower(ReplaceSpace(Section1))
    /\ Tail(result[1].href) # Join(<<"-">>, args.tags)

\* C28: within one report, two sections with different tag sequences (such as
\* sibling children registered under different names) never receive the same
\* DOM id: the headings of a rendered body have pairwise different ids.
C28_DistinctTagsDistinctIds ==
    op.kind = "render_html_body"
    => \A i, j \in DOMAIN result :
          (i # j /\ result[i].elem = "h" /\ result[j].elem = "h")
          => result[i].id # result[j].id

\* --------------------------------- null percentage of a discrete section
\* ColumnDiscreteSection.render_html_body: the percentage shown on the null
\* values line, 100 * null_values / total as the fraction num / den, or
\* "N/A" when the total is zero
null_values_pct(self) ==
    LET total == CounterTotal(self.counter)
    IN IF total > 0 THEN [num |-> 100 * self.null_values, den |-> total]
       ELSE "N/A"

\* C30: the null-value count of a section built by ColumnDiscreteAnalyzer
\* never exceeds the section's total, and the null percentage shown lies
\* between 0 and 100 whenever the total is positive.
C30_NullCountWithinTotal ==
    (op.kind = "analyze" /\ root.kind = "ColumnDiscreteSection")
    => /\ root.null_values <= CounterTotal(root.counter)
       /\ CounterTotal(root.counter) > 0
          => /\ 0 <= null_values_pct(root).num
             /\ null_values_pct(root).num <= 100 * null_values_pct(root).den

====
